---------------------------- MODULE Spec2Model ----------------------------
(***************************************************************************)
(* Matched-betting core of the Odds backend: the stake/profit calculator   *)
(* (backend/utils/calculator.py), the pairing engine and recommendation    *)
(* ranker (backend/utils/match_filtering.py), the offer profit estimator   *)
(* (backend/utils/offers_calculator.py) and the catalog view               *)
(* (backend/services/offers_catalog.py).                                   *)
(*                                                                         *)
(* The functions are stateless: the state of the model is the call in      *)
(* flight (`call`, the operation and its arguments) and what it returned   *)
(* (`ret`).  One action per entry point draws the arguments from small     *)
(* grids and applies the function as the code computes it.                 *)
(*                                                                         *)
(* Numbers.  Python floats are modelled as exact rationals [n, d] (d > 0,  *)
(* lowest terms); a decimal literal x.yz is Dec(xyz).  round(x, k) is      *)
(* round-half-to-even on the exact value and yields an integer number of   *)
(* 10^-k units (pennies for k = 2, tenths for k = 1).  Binary              *)
(* representation error of floats is not modelled.  An Optional value is   *)
(* a sequence: <<>> is None and <<v>> is the value v.                      *)
(***************************************************************************)
EXTENDS Integers, Sequences, FiniteSets, TLC

VARIABLES call, ret

\* the caller's objects and the calls made on them
VARIABLES inputs, history

\* the tables of the database and the requests being handled
VARIABLES user_offer_progress, users, requests, stages_seen

\* the offers_catalog row kept up to date by the scraper
VARIABLES offers_catalog, estimated_from

store == <<inputs, history, user_offer_progress, users, requests, stages_seen, offers_catalog, estimated_from>>

vars == <<call, ret, store>>

---------------------------------------------------------------------------
(* Exact rational arithmetic standing for Python float arithmetic.         *)

Abs(x) == IF x < 0 THEN -x ELSE x

RECURSIVE GCD(_, _)
GCD(a, b) == IF b = 0 THEN a ELSE GCD(b, a % b)

Norm(n, d) ==
    LET g == GCD(Abs(n), Abs(d))
        s == IF d < 0 THEN -1 ELSE 1
    IN  [n |-> s * (n \div g), d |-> s * (d \div g)]

Dec(x) == Norm(x, 100)
Whole(x) == [n |-> x, d |-> 1]

RAdd(a, b) ==
    LET l == (a.d \div GCD(a.d, b.d)) * b.d
    IN  Norm(a.n * (l \div a.d) + b.n * (l \div b.d), l)

RNeg(a) == [n |-> -a.n, d |-> a.d]
RSub(a, b) == RAdd(a, RNeg(b))

RMul(a, b) ==
    LET g1 == GCD(Abs(a.n), b.d)
        g2 == GCD(Abs(b.n), a.d)
        g1p == IF g1 = 0 THEN 1 ELSE g1
        g2p == IF g2 = 0 THEN 1 ELSE g2
    IN  Norm((a.n \div g1p) * (b.n \div g2p), (a.d \div g2p) * (b.d \div g1p))

\* a / b for b # 0 (Python raises ZeroDivisionError for b = 0)
RDiv(a, b) == RMul(a, Norm(b.d, b.n))

RLt(a, b) == RSub(a, b).n < 0
RLe(a, b) == RSub(a, b).n <= 0
RMin(a, b) == IF RLe(a, b) THEN a ELSE b
RMax(a, b) == IF RLe(b, a) THEN a ELSE b
RAbs(a) == [n |-> Abs(a.n), d |-> a.d]

\* nearest integer to n / d (d > 0), ties to the even neighbour
RoundHalfEven(n, d) ==
    LET q == n \div d
        r == n % d
    IN  IF 2 * r < d THEN q
        ELSE IF 2 * r > d THEN q + 1
        ELSE IF q % 2 = 0 THEN q ELSE q + 1

\* Python round(x, 2), in hundredths
Round2(x) == RoundHalfEven(x.n * 100, x.d)
\* Python round(x, 1), in tenths
Round1(x) == RoundHalfEven(x.n * 10, x.d)

\* Optional values
None == <<>>
Some(v) == <<v>>
IsNone(o) == o = <<>>
Val(o) == o[1]

---------------------------------------------------------------------------
(* backend/models/calculator.py                                            *)

QUALIFYING == "qualifying"
FREE_BET_SNR == "free_bet_snr"
FREE_BET_SR == "free_bet_sr"
BetType == {QUALIFYING, FREE_BET_SNR, FREE_BET_SR}

\* any commission below 1 passes
CalcRequestValid_any_commission(r) ==
    /\ r.back_odds > 100
    /\ r.lay_odds > 100
    /\ r.stake > 0
    /\ r.bet_type \in BetType
    /\ r.commission >= 0
    /\ r.commission < 100

\* CalcRequest field constraints (hundredths): gt=1.0, gt=1.0, gt=0, ge=0, le=0.2
CalcRequestValid(r) ==
    /\ r.back_odds > 100
    /\ r.lay_odds > 100
    /\ r.stake > 0
    /\ r.bet_type \in BetType
    /\ r.commission >= 0
    /\ r.commission <= 20

---------------------------------------------------------------------------
(* backend/utils/calculator.py                                             *)

calc_calculate_spread(back_odds, lay_odds) ==
    RMul(RDiv(RAbs(RSub(lay_odds, back_odds)), back_odds), Whole(100))

\* the steps are applied to the spread as the response shows it
get_rating_of_rounded(spread, bet_type) ==
    LET shown == Round2(spread)
    IN  IF bet_type = QUALIFYING
        THEN IF shown <= 100 THEN "Excellent"
             ELSE IF shown <= 200 THEN "Good"
             ELSE IF shown <= 350 THEN "Fair"
             ELSE "Poor"
        ELSE IF shown <= 200 THEN "Excellent"
             ELSE IF shown <= 400 THEN "Good"
             ELSE IF shown <= 600 THEN "Fair"
             ELSE "Poor"

get_rating(spread, bet_type) ==
    IF bet_type = QUALIFYING
    THEN IF RLe(spread, Whole(1)) THEN "Excellent"
         ELSE IF RLe(spread, Whole(2)) THEN "Good"
         ELSE IF RLe(spread, Dec(350)) THEN "Fair"
         ELSE "Poor"
    ELSE IF RLe(spread, Whole(2)) THEN "Excellent"
         ELSE IF RLe(spread, Whole(4)) THEN "Good"
         ELSE IF RLe(spread, Whole(6)) THEN "Fair"
         ELSE "Poor"

CalcResponse(back_odds, lay_odds, stake, bet_type, commission, lay_stake, liability, back_wins_profit, lay_wins_profit, guaranteed, expected, rating, spread) ==
    [back_odds |-> back_odds, lay_odds |-> lay_odds, stake |-> stake,
     bet_type |-> bet_type, commission |-> commission,
     lay_stake |-> Round2(lay_stake),
     liability |-> Round2(liability),
     outcomes |-> <<[outcome |-> "back_wins", profit |-> Round2(back_wins_profit)],
                    [outcome |-> "lay_wins", profit |-> Round2(lay_wins_profit)]>>,
     guaranteed_profit |-> Round2(guaranteed),
     expected_value |-> Round2(expected),
     rating |-> rating,
     spread_percent |-> Round2(spread)]

\* both outcomes forget that the qualifying stake is the bettor's own money
calculate_qualifying_bet_keeps_stake(back_odds, lay_odds, stake, commission) ==
    LET lay_stake == RDiv(RMul(stake, back_odds), RSub(lay_odds, commission))
        liability == RMul(lay_stake, RSub(lay_odds, Whole(1)))
        back_wins_profit == RSub(RMul(stake, back_odds), liability)
        lay_wins_profit == RMul(lay_stake, RSub(Whole(1), commission))
        guaranteed == RMin(back_wins_profit, lay_wins_profit)
        expected == RDiv(RAdd(back_wins_profit, lay_wins_profit), Whole(2))
        spread == calc_calculate_spread(back_odds, lay_odds)
        rating == get_rating(spread, QUALIFYING)
    IN  CalcResponse(back_odds, lay_odds, stake, QUALIFYING, commission,
                     lay_stake, liability, back_wins_profit, lay_wins_profit,
                     guaranteed, expected, rating, spread)

calculate_qualifying_bet(back_odds, lay_odds, stake, commission) ==
    LET lay_stake == RDiv(RMul(stake, back_odds), RSub(lay_odds, commission))
        liability == RMul(lay_stake, RSub(lay_odds, Whole(1)))
        back_wins_profit == RSub(RMul(stake, RSub(back_odds, Whole(1))), liability)
        lay_wins_profit == RSub(RMul(lay_stake, RSub(Whole(1), commission)), stake)
        guaranteed == RMin(back_wins_profit, lay_wins_profit)
        expected == RDiv(RAdd(back_wins_profit, lay_wins_profit), Whole(2))
        spread == calc_calculate_spread(back_odds, lay_odds)
        rating == get_rating(spread, QUALIFYING)
    IN  CalcResponse(back_odds, lay_odds, stake, QUALIFYING, commission,
                     lay_stake, liability, back_wins_profit, lay_wins_profit,
                     guaranteed, expected, rating, spread)

\* the lay-wins branch charges the free-bet stake as if it were real money
calculate_free_bet_snr_loses_stake(back_odds, lay_odds, stake, commission) ==
    LET potential_winnings == RMul(stake, RSub(back_odds, Whole(1)))
        lay_stake == RDiv(potential_winnings, RSub(lay_odds, commission))
        liability == RMul(lay_stake, RSub(lay_odds, Whole(1)))
        back_wins_profit == RSub(potential_winnings, liability)
        lay_wins_profit == RSub(RMul(lay_stake, RSub(Whole(1), commission)), stake)
        guaranteed == RMin(back_wins_profit, lay_wins_profit)
        expected == RDiv(RAdd(back_wins_profit, lay_wins_profit), Whole(2))
        spread == calc_calculate_spread(back_odds, lay_odds)
        rating == get_rating(spread, FREE_BET_SNR)
    IN  CalcResponse(back_odds, lay_odds, stake, FREE_BET_SNR, commission,
                     lay_stake, liability, back_wins_profit, lay_wins_profit,
                     guaranteed, expected, rating, spread)

calculate_free_bet_snr(back_odds, lay_odds, stake, commission) ==
    LET potential_winnings == RMul(stake, RSub(back_odds, Whole(1)))
        lay_stake == RDiv(potential_winnings, RSub(lay_odds, commission))
        liability == RMul(lay_stake, RSub(lay_odds, Whole(1)))
        back_wins_profit == RSub(potential_winnings, liability)
        lay_wins_profit == RMul(lay_stake, RSub(Whole(1), commission))
        guaranteed == RMin(back_wins_profit, lay_wins_profit)
        expected == RDiv(RAdd(back_wins_profit, lay_wins_profit), Whole(2))
        spread == calc_calculate_spread(back_odds, lay_odds)
        rating == get_rating(spread, FREE_BET_SNR)
    IN  CalcResponse(back_odds, lay_odds, stake, FREE_BET_SNR, commission,
                     lay_stake, liability, back_wins_profit, lay_wins_profit,
                     guaranteed, expected, rating, spread)

calculate_free_bet_sr(back_odds, lay_odds, stake, commission) ==
    LET potential_payout == RMul(stake, back_odds)
        lay_stake == RDiv(potential_payout, RSub(lay_odds, commission))
        liability == RMul(lay_stake, RSub(lay_odds, Whole(1)))
        back_wins_profit == RSub(potential_payout, liability)
        lay_wins_profit == RMul(lay_stake, RSub(Whole(1), commission))
        guaranteed == RMin(back_wins_profit, lay_wins_profit)
        expected == RDiv(RAdd(back_wins_profit, lay_wins_profit), Whole(2))
        spread == calc_calculate_spread(back_odds, lay_odds)
        rating == get_rating(spread, FREE_BET_SR)
    IN  CalcResponse(back_odds, lay_odds, stake, FREE_BET_SR, commission,
                     lay_stake, liability, back_wins_profit, lay_wins_profit,
                     guaranteed, expected, rating, spread)

\* request fields are hundredths; the response echoes them and carries
\* rounded results in hundredths
calculate(request) ==
    LET b == Dec(request.back_odds)
        l == Dec(request.lay_odds)
        s == Dec(request.stake)
        c == Dec(request.commission)
    IN  IF request.bet_type = QUALIFYING THEN calculate_qualifying_bet(b, l, s, c)
        ELSE IF request.bet_type = FREE_BET_SNR THEN calculate_free_bet_snr(b, l, s, c)
        ELSE calculate_free_bet_sr(b, l, s, c)

---------------------------------------------------------------------------
(* backend/config.py                                                       *)

BETFAIR_EXCHANGE_KEY == "betfair_ex_uk"
\* Config.BETFAIR_COMMISSION = 0.05, in hundredths
BETFAIR_COMMISSION == 5

---------------------------------------------------------------------------
(* backend/utils/match_filtering.py: the pairing engine.  Odds of a quote  *)
(* are hundredths (210 is 2.10); draw_odds is Optional.                    *)

\* float('inf'), returned by calculate_spread for back_odds <= 0
Infinity == [n |-> 1, d |-> 0]

calculate_spread(back_odds, lay_odds) ==
    IF back_odds.n <= 0 THEN Infinity
    ELSE RMul(RDiv(RAbs(RSub(lay_odds, back_odds)), back_odds), Whole(100))

\* the comparison of the spread filter turned around
SpreadExceeds_inverted(spread, max_spread) ==
    IF spread = Infinity THEN FALSE ELSE RLt(spread, max_spread)

\* spread > max_spread, where spread may be float('inf')
SpreadExceeds(spread, max_spread) ==
    IF spread = Infinity THEN TRUE ELSE RLt(max_spread, spread)

exchange_keys == {BETFAIR_EXCHANGE_KEY, "smarkets"}

\* the price a quote carries for an outcome; `draw_odds or 0` for the draw
OutcomeOdds(bm_odds, outcome) ==
    IF outcome = "home" THEN bm_odds.home_odds
    ELSE IF outcome = "away" THEN bm_odds.away_odds
    ELSE IF IsNone(bm_odds.draw_odds) THEN 0 ELSE Val(bm_odds.draw_odds)

\* the loop of get_best_back_odds from quote i on
RECURSIVE best_back_loop(_, _, _, _, _, _)
best_back_loop(quotes, outcome, exclude_exchanges, i, best_odds, best_bookmaker) ==
    IF i > Len(quotes) THEN
        IF IsNone(best_bookmaker) THEN None
        ELSE Some([bookmaker |-> Val(best_bookmaker), odds |-> best_odds])
    ELSE IF exclude_exchanges /\ quotes[i].bookmaker_key \in exchange_keys THEN
        best_back_loop(quotes, outcome, exclude_exchanges, i + 1, best_odds, best_bookmaker)
    ELSE IF outcome \notin {"home", "away", "draw"} THEN
        best_back_loop(quotes, outcome, exclude_exchanges, i + 1, best_odds, best_bookmaker)
    ELSE IF OutcomeOdds(quotes[i], outcome) > best_odds THEN
        best_back_loop(quotes, outcome, exclude_exchanges, i + 1,
                       OutcomeOdds(quotes[i], outcome), Some(quotes[i].bookmaker_title))
    ELSE
        best_back_loop(quotes, outcome, exclude_exchanges, i + 1, best_odds, best_bookmaker)

\* exchanges are not skipped
get_best_back_odds_any_source(match, outcome, exclude_exchanges) ==
    best_back_loop(match.bookmaker_odds, outcome, FALSE, 1, 0, None)

\* the quotes are gone through from the last to the first
get_best_back_odds_last_seen(match, outcome, exclude_exchanges) ==
    best_back_loop([i \in 1..Len(match.bookmaker_odds) |->
                       match.bookmaker_odds[Len(match.bookmaker_odds) + 1 - i]],
                   outcome, exclude_exchanges, 1, 0, None)
\* a quote replaces the best so far only with a higher price
get_best_back_odds(match, outcome, exclude_exchanges) ==
    best_back_loop(match.bookmaker_odds, outcome, exclude_exchanges, 1, 0, None)

\* the first Betfair quote decides; None when there is none or it has no draw
get_betfair_lay_odds(match, outcome) ==
    LET idx == {i \in 1..Len(match.bookmaker_odds) :
                    match.bookmaker_odds[i].bookmaker_key = BETFAIR_EXCHANGE_KEY}
    IN  IF idx = {} THEN None
        ELSE LET bm_odds == match.bookmaker_odds[CHOOSE i \in idx : \A j \in idx : i <= j]
             IN  IF outcome = "home" THEN Some(bm_odds.home_odds)
                 ELSE IF outcome = "away" THEN Some(bm_odds.away_odds)
                 ELSE IF outcome = "draw" THEN bm_odds.draw_odds
                 ELSE None

MatchPairing(match, outcome, back_bookmaker, back_odds, lay_odds, spread) ==
    [match_id |-> match.match_id,
     home_team |-> match.home_team,
     away_team |-> match.away_team,
     league |-> match.sport_title,
     commence_time |-> match.commence_time,
     outcome |-> outcome,
     outcome_name |-> IF outcome = "home" THEN match.home_team
                      ELSE IF outcome = "away" THEN match.away_team
                      ELSE "Draw",
     back_bookmaker |-> back_bookmaker,
     back_odds |-> back_odds,
     lay_exchange |-> "Betfair",
     lay_odds |-> lay_odds,
     spread_percent |-> Round2(spread)]

\* what one (match, outcome) iteration of find_best_pairings appends
pairings_of_outcome(match, outcome, min_odds, max_odds, max_spread) ==
    LET back_result == get_best_back_odds(match, outcome, TRUE)
    IN  IF IsNone(back_result) THEN <<>>
        ELSE LET back_bookmaker == Val(back_result).bookmaker
                 back_odds == Val(back_result).odds
             IN  IF ~(min_odds <= back_odds /\ back_odds <= max_odds) THEN <<>>
                 ELSE LET lay_odds == get_betfair_lay_odds(match, outcome)
                      IN  IF IsNone(lay_odds) \/ Val(lay_odds) = 0 THEN <<>>
                          ELSE LET spread == calculate_spread(Dec(back_odds), Dec(Val(lay_odds)))
                               IN  IF SpreadExceeds(spread, max_spread) THEN <<>>
                                   ELSE <<MatchPairing(match, outcome, back_bookmaker,
                                                       back_odds, Val(lay_odds), spread)>>

Outcomes == <<"home", "away", "draw">>

pairings_of_match(match, min_odds, max_odds, max_spread) ==
    pairings_of_outcome(match, Outcomes[1], min_odds, max_odds, max_spread)
    \o pairings_of_outcome(match, Outcomes[2], min_odds, max_odds, max_spread)
    \o pairings_of_outcome(match, Outcomes[3], min_odds, max_odds, max_spread)

RECURSIVE pairings_of_matches(_, _, _, _)
pairings_of_matches(matches, min_odds, max_odds, max_spread) ==
    IF matches = <<>> THEN <<>>
    ELSE pairings_of_match(Head(matches), min_odds, max_odds, max_spread)
         \o pairings_of_matches(Tail(matches), min_odds, max_odds, max_spread)

\* list.sort(key=lambda p: p.spread_percent): stable, ascending
RECURSIVE sort_by_spread(_)
sort_by_spread(s) ==
    IF s = <<>> THEN <<>>
    ELSE LET rest == sort_by_spread(SubSeq(s, 1, Len(s) - 1))
             x == s[Len(s)]
             k == Cardinality({i \in 1..Len(rest) : rest[i].spread_percent <= x.spread_percent})
         IN  SubSeq(rest, 1, k) \o <<x>> \o SubSeq(rest, k + 1, Len(rest))

\* the pairings are returned in the order the loops found them
find_best_pairings_unsorted(matches, min_odds, max_odds, max_spread) ==
    pairings_of_matches(matches, min_odds, max_odds, max_spread)

\* takes the best price of all bookmakers first and applies the odds range
\* to it afterwards; max_spread is a rational, the odds bounds are hundredths
find_best_pairings(matches, min_odds, max_odds, max_spread) ==
    sort_by_spread(pairings_of_matches(matches, min_odds, max_odds, max_spread))

---------------------------------------------------------------------------
(* backend/utils/match_filtering.py: stake arithmetic and the ranker.      *)

\* the commission is left out of the denominator
calculate_lay_stake_no_commission(back_stake, back_odds, lay_odds, commission) ==
    RDiv(RMul(back_stake, back_odds), lay_odds)

calculate_lay_stake(back_stake, back_odds, lay_odds, commission) ==
    RDiv(RMul(back_stake, back_odds), RSub(lay_odds, commission))

\* the worse outcome is returned as it is, a loss as a negative number
calculate_qualifying_loss_not_negated(back_stake, back_odds, lay_odds, commission) ==
    LET lay_stake == calculate_lay_stake(back_stake, back_odds, lay_odds, commission)
        liability == RMul(lay_stake, RSub(lay_odds, Whole(1)))
        back_win_profit == RSub(RMul(back_stake, RSub(back_odds, Whole(1))), liability)
        lay_win_profit == RSub(RMul(lay_stake, RSub(Whole(1), commission)), back_stake)
    IN  RMin(back_win_profit, lay_win_profit)
\* positive for a loss
calculate_qualifying_loss(back_stake, back_odds, lay_odds, commission) ==
    LET lay_stake == calculate_lay_stake(back_stake, back_odds, lay_odds, commission)
        liability == RMul(lay_stake, RSub(lay_odds, Whole(1)))
        back_win_profit == RSub(RMul(back_stake, RSub(back_odds, Whole(1))), liability)
        lay_win_profit == RSub(RMul(lay_stake, RSub(Whole(1), commission)), back_stake)
    IN  RNeg(RMin(back_win_profit, lay_win_profit))

\* the stake-returned branch is computed like a bet with real money: the
\* free-bet value is taken off both outcomes
calculate_free_bet_profit(free_bet_value, back_odds, lay_odds, commission, is_snr) ==
    IF is_snr THEN
        LET lay_stake == RDiv(RMul(free_bet_value, RSub(back_odds, Whole(1))),
                              RSub(lay_odds, commission))
            liability == RMul(lay_stake, RSub(lay_odds, Whole(1)))
            back_win_profit == RSub(RMul(free_bet_value, RSub(back_odds, Whole(1))), liability)
            lay_win_profit == RMul(lay_stake, RSub(Whole(1), commission))
        IN  RMin(back_win_profit, lay_win_profit)
    ELSE
        LET lay_stake == RDiv(RMul(free_bet_value, back_odds), RSub(lay_odds, commission))
            liability == RMul(lay_stake, RSub(lay_odds, Whole(1)))
            back_win_profit == RSub(RMul(free_bet_value, RSub(back_odds, Whole(1))), liability)
            lay_win_profit == RSub(RMul(lay_stake, RSub(Whole(1), commission)), free_bet_value)
        IN  RMin(back_win_profit, lay_win_profit)

\* top_leagues.get(league, 6)
league_score(league) ==
    IF league \in {"English Premier League", "EPL", "Premier League",
                   "Champions League", "UEFA Champions League"} THEN 10
    ELSE IF league \in {"La Liga", "Bundesliga", "Serie A"} THEN 9
    ELSE IF league = "Ligue 1" THEN 8
    ELSE 6

\* Python truthiness of an Optional number
Truthy(o) == ~IsNone(o) /\ Val(o) # 0

\* the target odds are ignored: the odds score is always the range score
calculate_match_rating_ignores_target(pairing, target_odds) ==
    LET spread_score == RMax(Whole(0), RSub(Whole(10),
                                RMul(Dec(pairing.spread_percent), Whole(2))))
        odds == pairing.back_odds
        odds_score ==
            IF 200 <= odds /\ odds <= 350 THEN Whole(10)
            ELSE IF (150 <= odds /\ odds < 200) \/ (350 < odds /\ odds <= 500) THEN Whole(7)
            ELSE Whole(4)
        rating == RAdd(RAdd(RMul(spread_score, Norm(4, 10)), RMul(odds_score, Norm(3, 10))),
                       RMul(Whole(league_score(pairing.league)), Norm(3, 10)))
    IN  Round1(rating)

\* rating in tenths; target_odds is Optional hundredths
calculate_match_rating(pairing, target_odds) ==
    LET spread_score == RMax(Whole(0), RSub(Whole(10),
                                RMul(Dec(pairing.spread_percent), Whole(2))))
        odds == pairing.back_odds
        odds_score ==
            IF Truthy(target_odds) THEN
                LET odds_diff == RAbs(RSub(Dec(odds), Dec(Val(target_odds))))
                IN  RMax(Whole(0), RSub(Whole(10), RMul(odds_diff, Whole(2))))
            ELSE IF 200 <= odds /\ odds <= 350 THEN Whole(10)
            ELSE IF (150 <= odds /\ odds < 200) \/ (350 < odds /\ odds <= 500) THEN Whole(7)
            ELSE Whole(4)
        rating == RAdd(RAdd(RMul(spread_score, Norm(4, 10)), RMul(odds_score, Norm(3, 10))),
                       RMul(Whole(league_score(pairing.league)), Norm(3, 10)))
    IN  Round1(rating)

\* Python s[:n]
PySlice(s, n) ==
    IF n >= 0 THEN SubSeq(s, 1, IF n < Len(s) THEN n ELSE Len(s))
    ELSE SubSeq(s, 1, IF Len(s) + n > 0 THEN Len(s) + n ELSE 0)

\* the body of the loop of create_recommendations
MatchRecommendation(pairing, stake, free_bet_value, target_odds) ==
    LET b == Dec(pairing.back_odds)
        l == Dec(pairing.lay_odds)
        c == Dec(BETFAIR_COMMISSION)
        lay_stake == calculate_lay_stake(Dec(stake), b, l, c)
        liability == RMul(lay_stake, RSub(l, Whole(1)))
        qual_loss == calculate_qualifying_loss(Dec(stake), b, l, c)
        fb_value == IF Truthy(free_bet_value) THEN Val(free_bet_value) ELSE stake
        fb_profit == calculate_free_bet_profit(Dec(fb_value), b, l, c, TRUE)
        rating == calculate_match_rating(pairing, target_odds)
    IN  [match_id |-> pairing.match_id,
         home_team |-> pairing.home_team,
         away_team |-> pairing.away_team,
         league |-> pairing.league,
         commence_time |-> pairing.commence_time,
         outcome |-> pairing.outcome,
         outcome_name |-> pairing.outcome_name,
         back_bookmaker |-> pairing.back_bookmaker,
         back_odds |-> pairing.back_odds,
         lay_exchange |-> pairing.lay_exchange,
         lay_odds |-> pairing.lay_odds,
         spread_percent |-> pairing.spread_percent,
         match_rating |-> rating,
         stake |-> stake,
         lay_stake |-> Round2(lay_stake),
         liability |-> Round2(liability),
         qualifying_loss |-> Round2(qual_loss),
         free_bet_profit |-> Round2(fb_profit)]

\* list.sort(key=lambda r: r.match_rating, reverse=True): stable, descending
RECURSIVE sort_by_rating_desc(_)
sort_by_rating_desc(s) ==
    IF s = <<>> THEN <<>>
    ELSE LET rest == sort_by_rating_desc(SubSeq(s, 1, Len(s) - 1))
             x == s[Len(s)]
             k == Cardinality({i \in 1..Len(rest) : rest[i].match_rating >= x.match_rating})
         IN  SubSeq(rest, 1, k) \o <<x>> \o SubSeq(rest, k + 1, Len(rest))

\* the recommendations are truncated without being sorted by rating
create_recommendations_unsorted(pairings, stake, free_bet_value, target_odds, limit) ==
    LET considered == PySlice(pairings, limit * 2)
        recommendations ==
            [i \in 1..Len(considered) |->
                MatchRecommendation(considered[i], stake, free_bet_value, target_odds)]
    IN  PySlice(recommendations, limit)

\* only the first 2 * limit pairings are rated; stake and free_bet_value are
\* hundredths
create_recommendations(pairings, stake, free_bet_value, target_odds, limit) ==
    LET considered == PySlice(pairings, limit * 2)
        recommendations ==
            [i \in 1..Len(considered) |->
                MatchRecommendation(considered[i], stake, free_bet_value, target_odds)]
    IN  PySlice(sort_by_rating_desc(recommendations), limit)

---------------------------------------------------------------------------
(* backend/utils/offers_calculator.py: the offer profit estimator.         *)
(* Money and odds of an offer are Optional hundredths; a hash is an        *)
(* Optional string.                                                        *)

\* any minimum-odds requirement is taken as it is
formula_back_odds_no_floor(min_odds) ==
    IF Truthy(min_odds) THEN Val(min_odds) ELSE 200

\* back_odds = min_odds if min_odds and min_odds >= 1.5 else 2.0
formula_back_odds(min_odds) ==
    IF Truthy(min_odds) /\ Val(min_odds) >= 150 THEN Val(min_odds) ELSE 200

\* lay_odds = back_odds + 0.02
formula_lay_odds(back_odds) == back_odds + 2

\* the frame of calculate_expected_profit_formula at its return: the value
\* returned (None, or hundredths) and the locals it was computed from
calculate_expected_profit_formula(offer_value, required_stake, min_odds, is_stake_returned, commission) ==
    IF ~Truthy(offer_value) \/ ~Truthy(required_stake) THEN
        [returned |-> None, back_odds |-> None, lay_odds |-> None,
         qual_loss |-> None, fb_profit |-> None]
    ELSE
        LET back_odds == formula_back_odds(min_odds)
            lay_odds == formula_lay_odds(back_odds)
            qual_loss == calculate_qualifying_loss(Dec(Val(required_stake)), Dec(back_odds),
                                                   Dec(lay_odds), Dec(commission))
            fb_profit == calculate_free_bet_profit(Dec(Val(offer_value)), Dec(back_odds),
                                                   Dec(lay_odds), Dec(commission),
                                                   ~is_stake_returned)
        IN  [returned |-> Some(Round2(RSub(fb_profit, RAbs(qual_loss)))),
             back_odds |-> Some(back_odds), lay_odds |-> Some(lay_odds),
             qual_loss |-> Some(qual_loss), fb_profit |-> Some(fb_profit)]

\* Python truthiness of an Optional string
TruthyStr(o) == ~IsNone(o) /\ Val(o) # ""

\* llm_reply is what the model call yields: None when every attempt fails
calculate_expected_profit_with_llm(offer, llm_reply) ==
    IF ~Truthy(offer.offer_value) \/ Val(offer.offer_value) <= 0 THEN None
    ELSE llm_reply

\* the stored estimate is not kept when the hashes agree
calculate_expected_profit_ignores_hash(offer, use_llm, terms_hash, existing_hash, llm_reply) ==
    LET llm_result == IF use_llm THEN calculate_expected_profit_with_llm(offer, llm_reply)
                      ELSE None
        formula == calculate_expected_profit_formula(offer.offer_value, offer.required_stake,
                                                     offer.min_odds, offer.is_stake_returned, 2)
    IN  IF ~use_llm /\ ~IsNone(offer.expected_profit) THEN
            [returned |-> offer.expected_profit, llm_called |-> FALSE, formula_used |-> FALSE]
        ELSE IF use_llm /\ ~IsNone(llm_result) THEN
            [returned |-> llm_result, llm_called |-> TRUE, formula_used |-> FALSE]
        ELSE IF IsNone(offer.expected_profit) THEN
            [returned |-> formula.returned, llm_called |-> use_llm, formula_used |-> TRUE]
        ELSE
            [returned |-> offer.expected_profit, llm_called |-> use_llm, formula_used |-> FALSE]

\* the frame of calculate_expected_profit at its return: the value returned,
\* whether calculate_expected_profit_with_llm was called and whether the
\* formula was
calculate_expected_profit(offer, use_llm, terms_hash, existing_hash, llm_reply) ==
    LET llm_result == IF use_llm THEN calculate_expected_profit_with_llm(offer, llm_reply)
                      ELSE None
        formula == calculate_expected_profit_formula(offer.offer_value, offer.required_stake,
                                                     offer.min_odds, offer.is_stake_returned, 2)
    IN  IF /\ TruthyStr(terms_hash) /\ TruthyStr(existing_hash)
           /\ terms_hash = existing_hash /\ ~IsNone(offer.expected_profit) THEN
            [returned |-> offer.expected_profit, llm_called |-> FALSE, formula_used |-> FALSE]
        ELSE IF ~use_llm /\ ~IsNone(offer.expected_profit) THEN
            [returned |-> offer.expected_profit, llm_called |-> FALSE, formula_used |-> FALSE]
        ELSE IF use_llm /\ ~IsNone(llm_result) THEN
            [returned |-> llm_result, llm_called |-> TRUE, formula_used |-> FALSE]
        ELSE IF IsNone(offer.expected_profit) THEN
            [returned |-> formula.returned, llm_called |-> use_llm, formula_used |-> TRUE]
        ELSE
            [returned |-> offer.expected_profit, llm_called |-> use_llm, formula_used |-> FALSE]

\* the profit step of update_offers_from_scraper for an existing offer: what
\* goes into update_data
scraper_profit_update(temp_offer, current_terms_hash, existing_terms_hash, llm_reply) ==
    LET new_profit == calculate_expected_profit(temp_offer, TRUE, current_terms_hash,
                                                existing_terms_hash, llm_reply)
        fallback_profit == calculate_expected_profit_formula(
                               temp_offer.offer_value, temp_offer.required_stake,
                               temp_offer.min_odds, temp_offer.is_stake_returned, 2).returned
    IN  IF ~IsNone(new_profit.returned) THEN
            [returned |-> new_profit.returned, terms_hash |-> current_terms_hash,
             llm_called |-> new_profit.llm_called, formula_used |-> new_profit.formula_used]
        ELSE IF ~IsNone(fallback_profit) THEN
            [returned |-> fallback_profit, terms_hash |-> current_terms_hash,
             llm_called |-> new_profit.llm_called, formula_used |-> TRUE]
        ELSE
            [returned |-> None, terms_hash |-> None,
             llm_called |-> new_profit.llm_called, formula_used |-> TRUE]

---------------------------------------------------------------------------
(* Calls of the calculator: POST /calculate with a validated CalcRequest.  *)

CalcBackOdds == {101, 150, 200, 210, 299, 300, 500}
CalcLayOdds == {101, 150, 200, 202, 212, 302, 305, 520}
CalcStakes == {1, 50, 1000, 2000}
CalcCommissions == {0, 2, 5, 20}

CalcRequests ==
    {r \in [back_odds : CalcBackOdds, lay_odds : CalcLayOdds, stake : CalcStakes,
            bet_type : BetType, commission : CalcCommissions] : CalcRequestValid(r)}

---------------------------------------------------------------------------
(* Calls of the pairing engine: GET /find-matches hands find_best_pairings *)
(* the events of the odds feed.  The feed lists a bookmaker at most once   *)
(* per event.                                                              *)

MaxQuotes == 3
MaxMatches == 2

BookmakerKeys == {"bet365", "williamhill", BETFAIR_EXCHANGE_KEY, "smarkets"}

BookmakerTitle(key) ==
    IF key = "bet365" THEN "Bet365"
    ELSE IF key = "williamhill" THEN "William Hill"
    ELSE IF key = BETFAIR_EXCHANGE_KEY THEN "Betfair"
    ELSE "Smarkets"

BookmakerOdds(key, home_odds, draw_odds, away_odds) ==
    [bookmaker_key |-> key, bookmaker_title |-> BookmakerTitle(key),
     home_odds |-> home_odds, draw_odds |-> draw_odds, away_odds |-> away_odds]

\* <<home, draw, away>> prices a source may quote
PriceTriples == {<<300, Some(340), 200>>, <<302, None, 201>>, <<600, Some(350), 150>>}

QuoteSet == {BookmakerOdds(k, t[1], t[2], t[3]) : k \in BookmakerKeys, t \in PriceTriples}

Match(id, sport_title, bookmaker_odds) ==
    [match_id |-> id, sport_title |-> sport_title,
     home_team |-> "Arsenal", away_team |-> "Chelsea", commence_time |-> 0,
     bookmaker_odds |-> bookmaker_odds]

DistinctKeys(quotes) ==
    \A i, j \in 1..Len(quotes) :
        quotes[i].bookmaker_key = quotes[j].bookmaker_key => i = j

\* one event with any quotes
RichMatches ==
    {Match(1, "Premier League", q) :
        q \in {x \in UNION {[1..n -> QuoteSet] : n \in 0..MaxQuotes} : DistinctKeys(x)}}

\* events of a longer feed: a bookmaker and the exchange (or no exchange)
SimpleMatches ==
    {Match(0, "Premier League",
           <<BookmakerOdds("bet365", 300, Some(340), 200),
             BookmakerOdds(BETFAIR_EXCHANGE_KEY, 302, None, 201)>>),
     Match(0, "Ligue 1",
           <<BookmakerOdds(BETFAIR_EXCHANGE_KEY, 212, Some(340), 370),
             BookmakerOdds("williamhill", 210, Some(330), 360)>>),
     Match(0, "Serie B",
           <<BookmakerOdds("bet365", 250, Some(320), 280),
             BookmakerOdds("williamhill", 250, Some(325), 275),
             BookmakerOdds(BETFAIR_EXCHANGE_KEY, 251, Some(326), 281)>>),
     Match(0, "La Liga",
           <<BookmakerOdds("williamhill", 190, Some(350), 400)>>)}

\* match_id is the position in the feed
WithIds(ms) == [i \in 1..Len(ms) |-> [ms[i] EXCEPT !.match_id = i]]

MatchLists ==
    {<<m>> : m \in RichMatches}
    \cup {WithIds(ms) : ms \in UNION {[1..n -> SimpleMatches] : n \in 0..MaxMatches}}

\* odds bounds in hundredths
MinOddsGrid == {150, 250}
MaxOddsGrid == {350, 500}
\* max_spread in thousandths of a percent: 0.667, 1.0, 5.0
MaxSpreadGrid == {667, 1000, 5000}

---------------------------------------------------------------------------
(* Calls of the ranker: create_recommendations receives what               *)
(* find_best_pairings returned, a list sorted ascending by spread_percent. *)

MaxPairings == 3
MaxLimit == 2

Pairing(league, back_odds, lay_odds) ==
    [match_id |-> 0, home_team |-> "Arsenal", away_team |-> "Chelsea",
     league |-> league, commence_time |-> 0,
     outcome |-> "home", outcome_name |-> "Arsenal",
     back_bookmaker |-> "Bet365", back_odds |-> back_odds,
     lay_exchange |-> "Betfair", lay_odds |-> lay_odds,
     spread_percent |-> Round2(calculate_spread(Dec(back_odds), Dec(lay_odds)))]

PairingSet ==
    {Pairing("Serie B", 250, 251), Pairing("Serie B", 200, 201),
     Pairing("Premier League", 300, 302), Pairing("Ligue 1", 210, 212),
     Pairing("Premier League", 150, 156), Pairing("La Liga", 480, 500),
     Pairing("Championship", 600, 640)}

SortedBySpread(ps) ==
    \A i \in 1..Len(ps) - 1 : ps[i].spread_percent <= ps[i + 1].spread_percent

PairingLists ==
    {WithIds(ps) : ps \in {x \in UNION {[1..n -> PairingSet] : n \in 0..MaxPairings} :
                                SortedBySpread(x)}}

\* stake and free-bet value in hundredths of a pound
StakeGrid == {1000, 2500}
FreeBetValueGrid == {None, Some(5000)}
TargetOddsGrid == {None, Some(200), Some(300)}

---------------------------------------------------------------------------
(* Calls of the estimator: the catalog service passes the fields of an     *)
(* OfferCatalog row, all Optional floats without range constraints.        *)

OfferValueGrid == {None, Some(0), Some(-1000), Some(1000), Some(5000)}
RequiredStakeGrid == {None, Some(0), Some(-500), Some(5), Some(1000)}
OfferMinOddsGrid == {None, Some(120), Some(150), Some(180), Some(300)}

Offers ==
    [offer_value : {None, Some(-1000), Some(5000)},
     required_stake : {None, Some(1000)},
     min_odds : {None, Some(180)},
     is_stake_returned : BOOLEAN,
     expected_profit : {None, Some(0), Some(1250)}]

\* calculate_terms_hash yields "" for missing terms; a row may hold no hash
HashGrid == {None, Some(""), Some("h1"), Some("h2")}
LlmReplies == {None, Some(3000)}

Idle == [op |-> "idle"]

\* the offers one user can work on, and the update requests of that user a
\* server can be handling at one time
MaxUserOffers == 2
MaxRequests == 2

OfferIds == 1..MaxUserOffers
RequestSlots == 1..MaxRequests

\* no call made, no objects handed over, no progress rows, no request being
\* handled, the user's total at 0, no catalog row
Init ==
    /\ call = Idle
    /\ ret = <<>>
    /\ inputs = None
    /\ history = <<>>
    /\ user_offer_progress = [offer_id \in OfferIds |-> None]
    /\ users = [total_profit |-> 0]
    /\ requests = [slot \in RequestSlots |-> None]
    /\ stages_seen = [offer_id \in OfferIds |-> <<>>]
    /\ offers_catalog = None
    /\ estimated_from = None

\* a request is handled once: the handler runs from the idle state
Calculate ==
    \E request \in CalcRequests :
        /\ call = Idle
        /\ call' = [op |-> "calculate", request |-> request]
        /\ ret' = calculate(request)
        /\ UNCHANGED store

SpecCalc == Init /\ [][Calculate]_vars

FindBestPairings ==
    \E matches \in MatchLists, min_odds \in MinOddsGrid, max_odds \in MaxOddsGrid,
       max_spread \in MaxSpreadGrid :
        /\ call = Idle
        /\ call' = [op |-> "find_best_pairings", matches |-> matches,
                    min_odds |-> min_odds, max_odds |-> max_odds,
                    max_spread |-> max_spread]
        /\ ret' = find_best_pairings(matches, min_odds, max_odds, Norm(max_spread, 1000))
        /\ UNCHANGED store

SpecPairing == Init /\ [][FindBestPairings]_vars

CreateRecommendations ==
    \E pairings \in PairingLists, stake \in StakeGrid,
       free_bet_value \in FreeBetValueGrid, target_odds \in TargetOddsGrid,
       limit \in 0..MaxLimit :
        /\ call = Idle
        /\ call' = [op |-> "create_recommendations", pairings |-> pairings,
                    stake |-> stake, free_bet_value |-> free_bet_value,
                    target_odds |-> target_odds, limit |-> limit]
        /\ ret' = create_recommendations(pairings, stake, free_bet_value, target_odds, limit)
        /\ UNCHANGED store

SpecRank == Init /\ [][CreateRecommendations]_vars

CalculateExpectedProfitFormula ==
    \E offer_value \in OfferValueGrid, required_stake \in RequiredStakeGrid,
       min_odds \in OfferMinOddsGrid, is_stake_returned \in BOOLEAN :
        /\ call = Idle
        /\ call' = [op |-> "calculate_expected_profit_formula",
                    offer_value |-> offer_value, required_stake |-> required_stake,
                    min_odds |-> min_odds, is_stake_returned |-> is_stake_returned,
                    commission |-> 2]
        /\ ret' = calculate_expected_profit_formula(offer_value, required_stake, min_odds,
                                                    is_stake_returned, 2)
        /\ UNCHANGED store

SpecFormula == Init /\ [][CalculateExpectedProfitFormula]_vars

CalculateExpectedProfit ==
    \E offer \in Offers, use_llm \in BOOLEAN, terms_hash \in HashGrid,
       existing_hash \in HashGrid, llm_reply \in LlmReplies :
        /\ call = Idle
        /\ call' = [op |-> "calculate_expected_profit", offer |-> offer,
                    use_llm |-> use_llm, terms_hash |-> terms_hash,
                    existing_hash |-> existing_hash, llm_reply |-> llm_reply]
        /\ ret' = calculate_expected_profit(offer, use_llm, terms_hash, existing_hash, llm_reply)
        /\ UNCHANGED store

\* update_offers_from_scraper, profit step: the current hash is always a string
ScraperProfitUpdate ==
    \E offer \in Offers, terms_hash \in HashGrid \ {None},
       existing_hash \in HashGrid, llm_reply \in LlmReplies :
        /\ call = Idle
        /\ call' = [op |-> "scraper_profit_update", offer |-> offer,
                    use_llm |-> TRUE, terms_hash |-> terms_hash,
                    existing_hash |-> existing_hash, llm_reply |-> llm_reply]
        /\ ret' = scraper_profit_update(offer, terms_hash, existing_hash, llm_reply)
        /\ UNCHANGED store

SpecEstimate == Init /\ [][CalculateExpectedProfit \/ ScraperProfitUpdate]_vars

---------------------------------------------------------------------------
(* Claims about the calculator (checked under SpecCalc).                   *)

IsCalc(bet_type) == call.op = "calculate" /\ call.request.bet_type = bet_type

HalfPenny == Norm(1, 200)

\* the closed form of the SNR profit: stake * (back - 1) * (1 - c) / (lay - c)
SnrExactProfit(r) ==
    RDiv(RMul(RMul(Dec(r.stake), RSub(Dec(r.back_odds), Whole(1))),
              RSub(Whole(1), Dec(r.commission))),
         RSub(Dec(r.lay_odds), Dec(r.commission)))

\* C5 as stated: for every valid request the FreeBetSNR guaranteed_profit
\* returned by calculate is strictly greater than 0.
C5_SnrProfitStrictlyPositive ==
    IsCalc(FREE_BET_SNR) => ret.guaranteed_profit > 0

\* C5 amended: the FreeBetSNR guaranteed_profit returned by calculate is
\* never negative, and it is strictly positive whenever the exact profit
\* stake * (back_odds - 1) * (1 - commission) / (lay_odds - commission)
\* exceeds half a penny (the result is rounded to two decimals).
C5_SnrProfitNonNegative ==
    IsCalc(FREE_BET_SNR) =>
        /\ ret.guaranteed_profit >= 0
        /\ (RLt(HalfPenny, SnrExactProfit(call.request)) => ret.guaranteed_profit > 0)

C5_Witness ==
    /\ IsCalc(FREE_BET_SNR)
    /\ call.request.lay_odds > call.request.back_odds
    /\ ret.guaranteed_profit > 0

\* C6 as stated: for every valid request the Qualifying guaranteed_profit
\* returned by calculate is less than or equal to 0.
C6_QualifyingProfitNeverPositive ==
    IsCalc(QUALIFYING) => ret.guaranteed_profit <= 0

\* C6 amended: for every valid request with lay_odds >= back_odds the
\* Qualifying guaranteed_profit returned by calculate is <= 0.
C6_QualifyingProfitNotPositiveWhenLayAtLeastBack ==
    (IsCalc(QUALIFYING) /\ call.request.lay_odds >= call.request.back_odds) =>
        ret.guaranteed_profit <= 0

C6_Witness ==
    /\ IsCalc(QUALIFYING)
    /\ call.request.lay_odds >= call.request.back_odds
    /\ ret.guaranteed_profit < 0

---------------------------------------------------------------------------
(* Claims about the pairing engine (checked under SpecPairing).            *)

IsPairingCall == call.op = "find_best_pairings"

NonExchangeQuotes(match) ==
    {i \in 1..Len(match.bookmaker_odds) :
        match.bookmaker_odds[i].bookmaker_key \notin exchange_keys}

\* the match of the call a pairing refers to
MatchOf(p) == call.matches[p.match_id]

\* both legs of pairing p are quotes of its event for its outcome
HasBothLegs(p) ==
    /\ p.match_id \in 1..Len(call.matches)
    /\ \E i \in NonExchangeQuotes(MatchOf(p)) :
        /\ MatchOf(p).bookmaker_odds[i].bookmaker_title = p.back_bookmaker
        /\ OutcomeOdds(MatchOf(p).bookmaker_odds[i], p.outcome) = p.back_odds
    /\ \E i \in 1..Len(MatchOf(p).bookmaker_odds) :
        /\ MatchOf(p).bookmaker_odds[i].bookmaker_key = BETFAIR_EXCHANGE_KEY
        /\ OutcomeOdds(MatchOf(p).bookmaker_odds[i], p.outcome) = p.lay_odds
    /\ p.lay_odds > 0

\* C1 as stated: each pairing returned by find_best_pairings has a
\* spread_percent that does not exceed max_spread and has both legs for the
\* same event and outcome (non-exchange back price, exchange lay price).
\* spread_percent is in hundredths, max_spread in thousandths of a percent.
C1_SpreadPercentWithinMaxSpread ==
    IsPairingCall =>
        \A k \in 1..Len(ret) :
            /\ ret[k].spread_percent * 10 <= call.max_spread
            /\ HasBothLegs(ret[k])

\* C1 amended: each pairing returned has both legs, and its spread before
\* rounding, |lay_odds - back_odds| / back_odds * 100, does not exceed
\* max_spread; the stored spread_percent is that spread rounded to two
\* decimals, so it exceeds max_spread by less than 0.005 and not at all when
\* max_spread has at most two decimals.
C1_ExactSpreadWithinMaxSpread ==
    IsPairingCall =>
        \A k \in 1..Len(ret) :
            /\ Abs(ret[k].lay_odds - ret[k].back_odds) * 100000
                   <= call.max_spread * ret[k].back_odds
            /\ ret[k].spread_percent * 10 < call.max_spread + 5
            /\ (call.max_spread % 10 = 0 => ret[k].spread_percent * 10 <= call.max_spread)
            /\ HasBothLegs(ret[k])

\* a pairing is returned whose rounded spread is above max_spread
C1_Witness ==
    /\ IsPairingCall
    /\ \E k \in 1..Len(ret) : ret[k].spread_percent * 10 > call.max_spread

\* the prices non-exchange sources quote within [min_odds, max_odds]
InRangeBackOdds(match, outcome) ==
    {OutcomeOdds(match.bookmaker_odds[i], outcome) : i \in NonExchangeQuotes(match)}
    \cap (call.min_odds..call.max_odds)

MaxOf(S) == CHOOSE x \in S : \A y \in S : y <= x

\* the exchange's price for the outcome, 0 when it quotes none
ExchangeLayOdds(match, outcome) ==
    LET lay == get_betfair_lay_odds(match, outcome)
    IN  IF IsNone(lay) THEN 0 ELSE Val(lay)

\* C2: for each event and outcome, whenever a non-exchange source quotes a
\* price in [min_odds, max_odds] and the exchange's lay price is within
\* max_spread of the highest such price, find_best_pairings emits a pairing
\* with that price as back_odds, whatever the other sources quote.
C2_BestInRangeBackOddsPaired ==
    IsPairingCall =>
        \A m \in 1..Len(call.matches) : \A o \in {"home", "away", "draw"} :
            LET match == call.matches[m]
                inRange == InRangeBackOdds(match, o)
                lay == ExchangeLayOdds(match, o)
            IN  (/\ inRange # {}
                 /\ lay > 0
                 /\ Abs(lay - MaxOf(inRange)) * 100000 <= call.max_spread * MaxOf(inRange))
                => \E k \in 1..Len(ret) :
                       /\ ret[k].match_id = m
                       /\ ret[k].outcome = o
                       /\ ret[k].back_odds = MaxOf(inRange)

---------------------------------------------------------------------------
(* Claims about the ranker (checked under SpecRank).                       *)

IsRankCall == call.op = "create_recommendations"

Returned(i) == \E k \in 1..Len(ret) : ret[k].match_id = call.pairings[i].match_id

\* C3: create_recommendations returns the top-N of the whole candidate
\* list: for every limit >= 1, no pairing left out of the result has a
\* match_rating strictly greater than that of a returned recommendation.
C3_TopNOfWholeList ==
    (IsRankCall /\ call.limit >= 1) =>
        \A i \in 1..Len(call.pairings) : \A k \in 1..Len(ret) :
            ~Returned(i) =>
                calculate_match_rating(call.pairings[i], call.target_odds)
                    <= ret[k].match_rating

\* C4: the list returned by create_recommendations is sorted non-increasing
\* by match_rating and has at most limit entries; when the input holds
\* fewer pairings than limit, one recommendation is returned for every
\* input pairing.
C4_SortedAndTruncated ==
    IsRankCall =>
        /\ \A k \in 1..Len(ret) - 1 : ret[k].match_rating >= ret[k + 1].match_rating
        /\ Len(ret) <= call.limit
        /\ Len(call.pairings) < call.limit =>
            /\ Len(ret) = Len(call.pairings)
            /\ \A i \in 1..Len(call.pairings) : Returned(i)

\* more pairings than limit, and the sort moved a later pairing to the front
C4_Witness ==
    /\ IsRankCall
    /\ Len(call.pairings) > call.limit
    /\ Len(ret) = 2
    /\ ret[1].match_rating > ret[2].match_rating
    /\ ret[1].match_id > ret[2].match_id

---------------------------------------------------------------------------
(* Claims about the fallback formula (checked under SpecFormula).          *)

IsFormulaCall == call.op = "calculate_expected_profit_formula"

NonPositive(o) == IsNone(o) \/ Val(o) <= 0

\* the BetCalculator result for the offer's free bet at the odds the formula used
PolicyResult ==
    IF call.is_stake_returned
    THEN calculate_free_bet_sr(Dec(Val(ret.back_odds)), Dec(Val(ret.lay_odds)),
                               Dec(Val(call.offer_value)), Dec(call.commission))
    ELSE calculate_free_bet_snr(Dec(Val(ret.back_odds)), Dec(Val(ret.lay_odds)),
                                Dec(Val(call.offer_value)), Dec(call.commission))

\* C7: the free-bet profit calculate_expected_profit_formula uses is the
\* guaranteed profit of the BetCalculator policy selected by
\* is_stake_returned (calculate_free_bet_sr when true, calculate_free_bet_snr
\* when false) for the same odds, offer value and commission.
C7_FreeBetProfitIsPolicyProfit ==
    (/\ IsFormulaCall
     /\ ~NonPositive(call.offer_value)
     /\ ~NonPositive(call.required_stake)) =>
        Round2(Val(ret.fb_profit)) = PolicyResult.guaranteed_profit

C9_NoneForNonPositiveOffer ==
    (IsFormulaCall /\ (NonPositive(call.offer_value) \/ NonPositive(call.required_stake))) =>
        IsNone(ret.returned)

---------------------------------------------------------------------------
(* Claims about calculate_expected_profit (checked under SpecEstimate).    *)

IsEstimateCall == call.op \in {"calculate_expected_profit", "scraper_profit_update"}

HasEstimate == IsEstimateCall /\ ~IsNone(call.offer.expected_profit)

-----------------------------------------------------------------------------
(* backend/services/offers_catalog.py: the catalog view.  A bookmaker name *)
(* is a sequence of characters; money is Optional hundredths.              *)

MAINSTREAM_BOOKMAKERS_LOWER ==
    << <<"b", "e", "t", "3", "6", "5">>, <<"b", "e", "t", "f", "a", "i", "r">>, <<"s", "k", "y", " ", "b", "e", "t">>,
       <<"p", "a", "d", "d", "y", " ", "p", "o", "w", "e", "r">>, <<"w", "i", "l", "l", "i", "a", "m", " ", "h", "i", "l", "l">>, <<"b", "e", "t", "w", "a", "y">>,
       <<"c", "o", "r", "a", "l">>, <<"l", "a", "d", "b", "r", "o", "k", "e", "s">>, <<"b", "e", "t", "v", "i", "c", "t", "o", "r">>, <<"u", "n", "i", "b", "e", "t">> >>

DIFFICULTY_RANK == [easy |-> 0, medium |-> 1, hard |-> 2]

UpperToLower ==
    [A |-> "a", B |-> "b", C |-> "c", D |-> "d", E |-> "e", F |-> "f", G |-> "g",
     H |-> "h", I |-> "i", J |-> "j", K |-> "k", L |-> "l", M |-> "m", N |-> "n",
     O |-> "o", P |-> "p", Q |-> "q", R |-> "r", S |-> "s", T |-> "t", U |-> "u",
     V |-> "v", W |-> "w", X |-> "x", Y |-> "y", Z |-> "z"]

\* str.lower()
str_lower(s) ==
    [i \in 1..Len(s) |-> IF s[i] \in DOMAIN UpperToLower THEN UpperToLower[s[i]] ELSE s[i]]

\* str.strip()
RECURSIVE str_lstrip(_)
str_lstrip(s) ==
    IF s # <<>> /\ s[1] = " " THEN str_lstrip(Tail(s)) ELSE s

RECURSIVE str_rstrip(_)
str_rstrip(s) ==
    IF s # <<>> /\ s[Len(s)] = " " THEN str_rstrip(SubSeq(s, 1, Len(s) - 1)) ELSE s

str_strip(s) == str_rstrip(str_lstrip(s))

\* s[i:].startswith(p)
str_starts_at(s, p, i) ==
    i + Len(p) - 1 <= Len(s) /\ SubSeq(s, i, i + Len(p) - 1) = p

\* p in s
str_contains(s, p) ==
    \E i \in 1..(Len(s) + 1) : str_starts_at(s, p, i)

\* s.replace(old, new) for a non-empty old: left to right, no overlaps
RECURSIVE str_replace_from(_, _, _, _)
str_replace_from(s, old, new, i) ==
    IF i > Len(s) THEN <<>>
    ELSE IF str_starts_at(s, old, i)
         THEN new \o str_replace_from(s, old, new, i + Len(old))
         ELSE <<s[i]>> \o str_replace_from(s, old, new, i + 1)

str_replace(s, old, new) == str_replace_from(s, old, new, 1)

\* _parse_offer_catalog: a missing or unknown difficulty becomes EASY
parse_difficulty(difficulty_str) ==
    IF IsNone(difficulty_str) \/ Val(difficulty_str) = "" THEN "easy"
    ELSE IF Val(difficulty_str) \in DOMAIN DIFFICULTY_RANK THEN Val(difficulty_str)
    ELSE "easy"

parse_offer_catalog(data) ==
    [id |-> data.id, bookmaker |-> data.bookmaker, offer_value |-> data.offer_value,
     expected_profit |-> data.expected_profit,
     difficulty |-> Some(parse_difficulty(data.difficulty)),
     priority_rank |-> data.priority_rank]

get_difficulty_rank(offer) ==
    IF IsNone(offer.difficulty) THEN 1
    ELSE IF Val(offer.difficulty) \in DOMAIN DIFFICULTY_RANK
         THEN DIFFICULTY_RANK[Val(offer.difficulty)]
         ELSE 1

normalize_bookmaker(bookmaker) ==
    LET bookmaker_lower == str_strip(str_lower(bookmaker))
        no_suffix == str_strip(str_replace(str_replace(str_replace(str_replace(
                        bookmaker_lower, <<" ", "s", "p", "o", "r", "t", "s", "b", "o", "o", "k">>, <<>>), <<" ", "e", "x", "c", "h", "a", "n", "g", "e">>, <<>>),
                        <<" ", "u", "k">>, <<>>), <<" ", " ">>, <<" ">>))
    IN  str_replace(str_replace(no_suffix, <<"b", "e", "t", "w", "r", "i", "g", "h", "t">>, <<"b", "e", "t", "w", "a", "y">>),
                    <<"b", "e", "t", " ", "w", "r", "i", "g", "h", "t">>, <<"b", "e", "t", "w", "a", "y">>)

\* the containment test runs one way only: an allow-list name inside the
\* normalised bookmaker name
is_top_10_mainstream(offer) ==
    IF offer.bookmaker = <<>> THEN FALSE
    ELSE LET bookmaker_normalized == normalize_bookmaker(offer.bookmaker)
             names == 1..Len(MAINSTREAM_BOOKMAKERS_LOWER)
         IN  \/ \E i \in names : MAINSTREAM_BOOKMAKERS_LOWER[i] = bookmaker_normalized
             \/ \E i \in names :
                   \/ str_contains(bookmaker_normalized, MAINSTREAM_BOOKMAKERS_LOWER[i])
                   \/ bookmaker_normalized = MAINSTREAM_BOOKMAKERS_LOWER[i]

\* check_sorting.py: the diagnostic's own classification
check_is_mainstream(offer) ==
    LET bm_lower == str_lower(offer.bookmaker)
    IN  \E i \in 1..Len(MAINSTREAM_BOOKMAKERS_LOWER) :
            \/ str_contains(bm_lower, MAINSTREAM_BOOKMAKERS_LOWER[i])
            \/ str_contains(MAINSTREAM_BOOKMAKERS_LOWER[i], bm_lower)

get_sort_key_profit_first(offer) ==
    << -(IF Truthy(offer.expected_profit) THEN Val(offer.expected_profit) ELSE 0),
       IF is_top_10_mainstream(offer) THEN 0 ELSE 1,
       get_difficulty_rank(offer),
       IF Truthy(offer.priority_rank) THEN Val(offer.priority_rank) ELSE 999 >>

get_sort_key(offer) ==
    << IF is_top_10_mainstream(offer) THEN 0 ELSE 1,
       -(IF Truthy(offer.expected_profit) THEN Val(offer.expected_profit) ELSE 0),
       get_difficulty_rank(offer),
       IF Truthy(offer.priority_rank) THEN Val(offer.priority_rank) ELSE 999 >>

\* tuple comparison a <= b of Python
RECURSIVE tuple_le(_, _)
tuple_le(a, b) ==
    IF a = <<>> THEN TRUE
    ELSE IF Head(a) # Head(b) THEN Head(a) < Head(b)
    ELSE tuple_le(Tail(a), Tail(b))

\* list.sort computes the key of every element once
keyed_offers(s) == [i \in 1..Len(s) |-> [key |-> get_sort_key(s[i]), offer |-> s[i]]]

RECURSIVE keyed_sort_unstable(_)
keyed_sort_unstable(s) ==
    IF s = <<>> THEN <<>>
    ELSE LET rest == keyed_sort_unstable(SubSeq(s, 1, Len(s) - 1))
             x == s[Len(s)]
             k == Cardinality({i \in 1..Len(rest) :
                      rest[i].key # x.key /\ tuple_le(rest[i].key, x.key)})
         IN  SubSeq(rest, 1, k) \o <<x>> \o SubSeq(rest, k + 1, Len(rest))

\* stable, ascending by key
RECURSIVE keyed_sort(_)
keyed_sort(s) ==
    IF s = <<>> THEN <<>>
    ELSE LET rest == keyed_sort(SubSeq(s, 1, Len(s) - 1))
             x == s[Len(s)]
             k == Cardinality({i \in 1..Len(rest) : tuple_le(rest[i].key, x.key)})
         IN  SubSeq(rest, 1, k) \o <<x>> \o SubSeq(rest, k + 1, Len(rest))

offers_sort_unstable(s) ==
    LET sorted == keyed_sort_unstable(keyed_offers(s))
    IN  [i \in 1..Len(sorted) |-> sorted[i].offer]

\* offers.sort(key=get_sort_key)
offers_sort(s) ==
    LET sorted == keyed_sort(keyed_offers(s))
    IN  [i \in 1..Len(sorted) |-> sorted[i].offer]

\* the preference and progress filters of a signed-in user
apply_user_preferences(offers_data, user) ==
    IF IsNone(user) THEN offers_data
    ELSE LET prefs == Val(user)
             listed == IF prefs.whitelist # {}
                       THEN SelectSeq(offers_data, LAMBDA o : o.bookmaker \in prefs.whitelist)
                       ELSE offers_data
             allowed == IF prefs.blacklist # {}
                        THEN SelectSeq(listed, LAMBDA o : o.bookmaker \notin prefs.blacklist)
                        ELSE listed
         IN  SelectSeq(allowed, LAMBDA o : o.id \notin prefs.started_ids)

has_free_bet(parsed) == Truthy(parsed.offer_value) /\ Val(parsed.offer_value) > 0

\* offers_data is what the table query returned
get_offers_catalog(offers_data, user, limit) ==
    LET visible == apply_user_preferences(offers_data, user)
        parsed == [i \in 1..Len(visible) |-> parse_offer_catalog(visible[i])]
        offers == PySlice(offers_sort(SelectSeq(parsed, has_free_bet)), limit)
    IN  [offers |-> offers, total |-> Len(offers)]

-----------------------------------------------------------------------------
(* Calls of the catalog view: GET /offers/catalog reads the rows of the    *)
(* offers table (bookmaker names as the scraper and the seed data write    *)
(* them), optionally for a signed-in user.                                 *)

MaxOffers == 3
MaxCatalogLimit == 3

CatalogRow(bookmaker, offer_value, expected_profit, difficulty, priority_rank) ==
    [bookmaker |-> bookmaker, offer_value |-> offer_value,
     expected_profit |-> expected_profit, difficulty |-> difficulty,
     priority_rank |-> priority_rank]

CatalogRows ==
    { CatalogRow(<<"B", "e", "t", "3", "6", "5">>, Some(3000), Some(2000), Some("easy"), Some(1)),
      CatalogRow(<<"B", "e", "t", "f", "a", "i", "r", " ", "E", "x", "c", "h", "a", "n", "g", "e">>, Some(2000), Some(500), None, Some(2)),
      CatalogRow(<<"C", "o", "r", "a", "l", " ", "S", "p", "o", "r", "t", "s", "b", "o", "o", "k">>, Some(2000), Some(500), Some("easy"), None),
      CatalogRow(<<"B", "e", "t", "f", "r", "e", "d">>, Some(5000), Some(4000), Some("hard"), Some(999)),
      CatalogRow(<<"S", "k", "y">>, Some(1000), None, Some("medium"), None),
      CatalogRow(<<"B", "e", "t", "W", "r", "i", "g", "h", "t">>, Some(1000), Some(0), Some("medium"), Some(999)),
      CatalogRow(<<"U", "n", "i", "b", "e", "t", " ", "U", "K">>, Some(1000), Some(-120), Some("easy"), Some(3)),
      CatalogRow(<<"M", "i", "d", "n", "i", "t", "e">>, Some(1000), Some(0), Some("medium"), None),
      CatalogRow(<<"M", "i", "d", "n", "i", "t", "e">>, None, Some(900), Some("easy"), Some(4)) }

\* the rows of a query result carry distinct ids
WithRowIds(rows) ==
    [i \in 1..Len(rows) |->
        [id |-> i, bookmaker |-> rows[i].bookmaker, offer_value |-> rows[i].offer_value,
         expected_profit |-> rows[i].expected_profit, difficulty |-> rows[i].difficulty,
         priority_rank |-> rows[i].priority_rank]]

OffersData ==
    UNION { { WithRowIds(rows) : rows \in [1..n -> CatalogRows] } : n \in 0..MaxOffers }

CatalogUsers ==
    { None,
      Some([whitelist |-> {}, blacklist |-> {<<"B", "e", "t", "f", "r", "e", "d">>}, started_ids |-> {2}]),
      Some([whitelist |-> {<<"B", "e", "t", "3", "6", "5">>, <<"S", "k", "y">>, <<"M", "i", "d", "n", "i", "t", "e">>, <<"B", "e", "t", "W", "r", "i", "g", "h", "t">>},
            blacklist |-> {}, started_ids |-> {}]) }

GetOffersCatalog ==
    /\ call = Idle
    /\ \E offers_data \in OffersData, user \in CatalogUsers, limit \in 1..MaxCatalogLimit :
        /\ call' = [op |-> "get_offers_catalog", offers_data |-> offers_data,
                    user |-> user, limit |-> limit]
        /\ ret' = get_offers_catalog(offers_data, user, limit)
        /\ UNCHANGED store

SpecCatalog == Init /\ [][GetOffersCatalog]_vars

-----------------------------------------------------------------------------
(* Claims about the catalog view (checked under SpecCatalog).              *)

IsCatalogCall == call.op = "get_offers_catalog"

ProfitOrZero(offer) ==
    IF IsNone(offer.expected_profit) THEN 0 ELSE Val(offer.expected_profit)

StatedDifficultyRank(offer) ==
    IF offer.difficulty = Some("easy") THEN 0
    ELSE IF offer.difficulty = Some("hard") THEN 2
    ELSE 1

RankOr999(offer) ==
    IF IsNone(offer.priority_rank) THEN 999 ELSE Val(offer.priority_rank)

\* a may stand before b under the stated composite key
StatedKeyOrder(a, b) ==
    LET ma == IF is_top_10_mainstream(a) THEN 0 ELSE 1
        mb == IF is_top_10_mainstream(b) THEN 0 ELSE 1
    IN  \/ ma < mb
        \/ /\ ma = mb
           /\ \/ ProfitOrZero(a) > ProfitOrZero(b)
              \/ /\ ProfitOrZero(a) = ProfitOrZero(b)
                 /\ \/ StatedDifficultyRank(a) < StatedDifficultyRank(b)
                    \/ /\ StatedDifficultyRank(a) = StatedDifficultyRank(b)
                       /\ RankOr999(a) <= RankOr999(b)

StatedMainstream(bookmaker) ==
    LET lower == str_lower(bookmaker)
        bare == str_strip(str_replace(str_replace(lower, <<" ", "s", "p", "o", "r", "t", "s", "b", "o", "o", "k">>, <<>>),
                                      <<" ", "e", "x", "c", "h", "a", "n", "g", "e">>, <<>>))
    IN  \E i \in 1..Len(MAINSTREAM_BOOKMAKERS_LOWER) : \E name \in {lower, bare} :
            \/ str_contains(name, MAINSTREAM_BOOKMAKERS_LOWER[i])
            \/ str_contains(MAINSTREAM_BOOKMAKERS_LOWER[i], name)

\* C12: every offer of the catalog is classed as mainstream by the service
\* exactly when its bookmaker name, case-insensitively and with the suffixes
\* tolerated, contains an allow-list name or is contained in one.
C12_MainstreamIsContainmentEitherWay ==
    IsCatalogCall =>
        \A i \in 1..Len(ret.offers) :
            is_top_10_mainstream(ret.offers[i]) <=> StatedMainstream(ret.offers[i].bookmaker)

\* C13: two returned offers with identical sort keys stand in the order in
\* which the query result listed them (the row id is the input position).
C13_EqualKeysKeepInputOrder ==
    IsCatalogCall =>
        \A i \in 1..Len(ret.offers) : \A j \in (i + 1)..Len(ret.offers) :
            get_sort_key(ret.offers[i]) = get_sort_key(ret.offers[j])
                => ret.offers[i].id < ret.offers[j].id

\* a tie of two different rows was returned in input order, behind a
\* mainstream offer the sort moved in front of both
C13_Witness ==
    /\ IsCatalogCall
    /\ Len(ret.offers) = 3
    /\ ret.offers[1].id = 2
    /\ ret.offers[2].id = 1
    /\ ret.offers[3].id = 3
    /\ ret.offers[2].bookmaker # ret.offers[3].bookmaker
    /\ get_sort_key(ret.offers[2]) = get_sort_key(ret.offers[3])

-----------------------------------------------------------------------------
(* Further claims about the calculator (checked under SpecCalc).           *)

\* scenario 1: Qualifying, back 2.10, lay 2.12, stake 10.00, commission 0.05
IsScenario1 ==
    /\ call.op = "calculate"
    /\ call.request = [back_odds |-> 210, lay_odds |-> 212, stake |-> 1000,
                       bet_type |-> QUALIFYING, commission |-> 5]

-----------------------------------------------------------------------------
(* Lay stakes at any odds.  The stake functions of the ranker carry no     *)
(* range check and MatchPairing none on lay_odds, so a quote at or below   *)
(* the commission reaches the division; Python raises ZeroDivisionError    *)
(* for a float division by 0.0.  The outcome of a call is a value or the   *)
(* exception that left it.                                                 *)

ZeroDivisionError == "ZeroDivisionError"

Ok(v) == [raised |-> None, value |-> v]
Raise(e) == [raised |-> Some(e)]

\* calculate_lay_stake with the exception of its division
calculate_lay_stake_outcome(back_stake, back_odds, lay_odds, commission) ==
    IF RSub(lay_odds, commission).n = 0 THEN Raise(ZeroDivisionError)
    ELSE Ok(calculate_lay_stake(back_stake, back_odds, lay_odds, commission))

\* create_recommendations with the exception of the first stake it cannot
\* compute: nothing in the loop catches it
create_recommendations_outcome(pairings, stake, free_bet_value, target_odds, limit) ==
    LET considered == PySlice(pairings, limit * 2)
    IN  IF \E i \in 1..Len(considered) : considered[i].lay_odds = BETFAIR_COMMISSION
        THEN Raise(ZeroDivisionError)
        ELSE Ok(create_recommendations(pairings, stake, free_bet_value, target_odds, limit))

LayStakeBackOdds == {150, 200, 300}
LayStakeLayOdds == {1, 2, 5, 20, 101, 212, 305}

\* pairings as the type admits them: the lay price of the second and third
\* is at and below the exchange commission
AnyOddsPairingSet ==
    {Pairing("Premier League", 300, 302), Pairing("Ligue 1", 200, 5),
     Pairing("Serie B", 200, 1), Pairing("La Liga", 210, 212)}

AnyOddsPairingLists ==
    {WithIds(ps) : ps \in UNION {[1..n -> AnyOddsPairingSet] : n \in 1..MaxPairings}}

CalculateLayStake ==
    \E back_stake \in StakeGrid, back_odds \in LayStakeBackOdds,
       lay_odds \in LayStakeLayOdds, commission \in CalcCommissions :
        /\ call = Idle
        /\ call' = [op |-> "calculate_lay_stake", back_stake |-> back_stake,
                    back_odds |-> back_odds, lay_odds |-> lay_odds,
                    commission |-> commission]
        /\ ret' = calculate_lay_stake_outcome(Dec(back_stake), Dec(back_odds),
                                              Dec(lay_odds), Dec(commission))
        /\ UNCHANGED store

CreateRecommendationsAnyOdds ==
    \E pairings \in AnyOddsPairingLists, stake \in StakeGrid, limit \in 1..MaxLimit :
        /\ call = Idle
        /\ call' = [op |-> "create_recommendations", pairings |-> pairings,
                    stake |-> stake, free_bet_value |-> None,
                    target_odds |-> None, limit |-> limit]
        /\ ret' = create_recommendations_outcome(pairings, stake, None, None, limit)
        /\ UNCHANGED store

SpecAnyOdds == Init /\ [][CalculateLayStake \/ CreateRecommendationsAnyOdds]_vars

-----------------------------------------------------------------------------
(* Claims about unusable odds (checked under SpecAnyOdds).                 *)

Unusable(pairing) == pairing.lay_odds <= BETFAIR_COMMISSION

\* C15: whenever lay_odds <= commission, calculate_lay_stake neither raises
\* nor returns a negative stake, and create_recommendations returns without
\* an exception what it returns for the list without the unusable pairings.
C15_UnusableOddsAreDroppedNotRaised ==
    /\ (call.op = "calculate_lay_stake" /\ call.lay_odds <= call.commission) =>
            /\ ret.raised = None
            /\ ret.value.n >= 0
    /\ (call.op = "create_recommendations"
            /\ \E i \in 1..Len(call.pairings) : Unusable(call.pairings[i])) =>
            /\ ret.raised = None
            /\ ret.value = create_recommendations(
                                SelectSeq(call.pairings, LAMBDA p : ~Unusable(p)),
                                call.stake, call.free_bet_value, call.target_odds,
                                call.limit)

-----------------------------------------------------------------------------
(* POST /calculate: the request body is validated against CalcRequest      *)
(* before the handler runs; a body that fails is answered 422.             *)

RawBackOdds == {50, 100, 101, 210}
RawLayOdds == {100, 101, 212}
RawStakes == {-1000, 0, 1, 1000}
RawCommissions == {-1, 0, 5, 20, 21, 50, 99, 100}

RawCalcRequests ==
    [back_odds : RawBackOdds, lay_odds : RawLayOdds, stake : RawStakes,
     bet_type : BetType, commission : RawCommissions]

calculate_matched_bet(request) ==
    IF CalcRequestValid(request)
    THEN [status_code |-> 200, body |-> calculate(request)]
    ELSE [status_code |-> 422]

PostCalculate ==
    \E request \in RawCalcRequests :
        /\ call = Idle
        /\ call' = [op |-> "post_calculate", request |-> request]
        /\ ret' = calculate_matched_bet(request)
        /\ UNCHANGED store

SpecPostCalc == Init /\ [][PostCalculate]_vars

-----------------------------------------------------------------------------
(* Claims about request validation (checked under SpecPostCalc).           *)

IsPostCalc == call.op = "post_calculate"

Computed == ret.status_code = 200 /\ ret.body = calculate(call.request)

OddsOrStakeInvalid ==
    \/ call.request.back_odds <= 100
    \/ call.request.lay_odds <= 100
    \/ call.request.stake <= 0

\* C16 as stated: a request is rejected with a validation error exactly when
\* back_odds <= 1.0, lay_odds <= 1.0, stake <= 0 or the commission is
\* outside [0, 1); every other request is accepted and computed.
C16_RejectedIffOutsideUnitCommission ==
    IsPostCalc =>
        LET invalid == \/ OddsOrStakeInvalid
                       \/ call.request.commission < 0
                       \/ call.request.commission >= 100
        IN  /\ invalid <=> ret.status_code = 422
            /\ ~invalid => Computed

\* C16 amended: a request is rejected with a validation error exactly when
\* back_odds <= 1.0, lay_odds <= 1.0, stake <= 0 or the commission is
\* outside [0, 0.2]; every other request is accepted and computed.
C16_RejectedIffOutsideCommissionCap ==
    IsPostCalc =>
        LET invalid == \/ OddsOrStakeInvalid
                       \/ call.request.commission < 0
                       \/ call.request.commission > 20
        IN  /\ invalid <=> ret.status_code = 422
            /\ ~invalid => Computed

\* a request at the commission cap was computed
C16_Witness ==
    /\ IsPostCalc
    /\ call.request.commission = 20
    /\ call.request.back_odds = 210
    /\ call.request.lay_odds = 212
    /\ call.request.stake = 1000
    /\ Computed
    /\ ret.body.lay_stake > 0

\* a request just above the cap was rejected
C16_WitnessRejected ==
    /\ IsPostCalc
    /\ call.request.commission = 21
    /\ ~OddsOrStakeInvalid
    /\ ret.status_code = 422

-----------------------------------------------------------------------------
(* Further claims about the ranker (checked under SpecRank).               *)

\* what BetCalculator computes for the odds of a recommendation at the
\* exchange commission the ranker uses
CalculatorQualifying(r, stake) ==
    calculate_qualifying_bet(Dec(r.back_odds), Dec(r.lay_odds), Dec(stake),
                             Dec(BETFAIR_COMMISSION))

CalculatorFreeBetSnr(r, value) ==
    calculate_free_bet_snr(Dec(r.back_odds), Dec(r.lay_odds), Dec(value),
                           Dec(BETFAIR_COMMISSION))

FreeBetValueOrStake ==
    IF IsNone(call.free_bet_value) THEN call.stake ELSE Val(call.free_bet_value)

\* C17: every recommendation carries the lay_stake and liability BetCalculator
\* computes for a Qualifying bet at stake, a qualifying_loss of the magnitude
\* of that bet's guaranteed profit, and as free_bet_profit the guaranteed
\* profit of a FreeBetSNR bet at free_bet_value, or at stake when no
\* free_bet_value is given.
C17_RecommendationCarriesCalculatorEconomics ==
    IsRankCall =>
        \A i \in 1..Len(ret) :
            LET q == CalculatorQualifying(ret[i], call.stake)
                f == CalculatorFreeBetSnr(ret[i], FreeBetValueOrStake)
            IN  /\ ret[i].lay_stake = q.lay_stake
                /\ ret[i].liability = q.liability
                /\ Abs(ret[i].qualifying_loss) = Abs(q.guaranteed_profit)
                /\ ret[i].free_bet_profit = f.guaranteed_profit

\* a 50.00 free bet behind a 10.00 qualifying bet: a loss on the one, a
\* profit on the other
C17_Witness ==
    /\ IsRankCall
    /\ call.stake = 1000
    /\ call.free_bet_value = Some(5000)
    /\ Len(ret) = 2
    /\ ret[1].back_odds # ret[2].back_odds
    /\ ret[1].qualifying_loss > 0
    /\ ret[1].free_bet_profit > ret[1].qualifying_loss

-----------------------------------------------------------------------------
(* Further claims about the pairing engine (checked under SpecPairing).    *)
(* The prices of the feed are decimal odds above 1.0.                      *)

ExchangeTitles == {BookmakerTitle(k) : k \in exchange_keys}

-----------------------------------------------------------------------------
(* Claims about the rating of a calculation (checked under SpecCalc).      *)

\* the rating steps in hundredths of a percent, by bet type
RatingSteps(bet_type) ==
    IF bet_type = QUALIFYING THEN <<100, 200, 350>> ELSE <<200, 400, 600>>

RatingNames == <<"Excellent", "Good", "Fair", "Poor">>

\* the name of the first step that holds, "Poor" when none does
StepRating(within) ==
    IF within[1] THEN RatingNames[1]
    ELSE IF within[2] THEN RatingNames[2]
    ELSE IF within[3] THEN RatingNames[3]
    ELSE RatingNames[4]

-----------------------------------------------------------------------------
(* Claims about the match rating (checked under SpecRank).                 *)

StatedLeagueTable ==
    [i \in {"English Premier League", "EPL", "Premier League", "Champions League",
            "UEFA Champions League"} |-> 10]
    @@ [i \in {"La Liga", "Bundesliga", "Serie A"} |-> 9]
    @@ [i \in {"Ligue 1"} |-> 8]

NonNegative(x) == IF x > 0 THEN x ELSE 0

\* the three scores of a recommendation, in hundredths of a point
StatedSpreadScore(r) == NonNegative(1000 - 2 * r.spread_percent)

StatedOddsScore(r, target_odds) ==
    IF ~IsNone(target_odds)
    THEN NonNegative(1000 - 2 * Abs(r.back_odds - Val(target_odds)))
    ELSE IF r.back_odds >= 200 /\ r.back_odds <= 350 THEN 1000
    ELSE IF r.back_odds >= 150 /\ r.back_odds <= 500 THEN 700
    ELSE 400

StatedLeagueScore(r) ==
    IF r.league \in DOMAIN StatedLeagueTable THEN 100 * StatedLeagueTable[r.league]
    ELSE 600

-----------------------------------------------------------------------------
(* Claims about the order of the pairings (checked under SpecPairing).     *)

\* C21: the list find_best_pairings returns is ascending in spread_percent
\* across all events and outcomes.
C21_PairingsAscendingBySpread ==
    IsPairingCall =>
        \A k \in 1..(Len(ret) - 1) : ret[k].spread_percent <= ret[k + 1].spread_percent

\* a pairing of the second event was moved in front of one of the first
C21_Witness ==
    /\ IsPairingCall
    /\ Len(call.matches) = 2
    /\ \E k \in 1..(Len(ret) - 1) :
        /\ ret[k].match_id = 2
        /\ ret[k + 1].match_id = 1
        /\ ret[k].spread_percent < ret[k + 1].spread_percent

---------------------------------------------------------------------------
(* The three entry points as their caller sees them.  Python passes the    *)
(* list of matches, the list of pairings and the request by reference: a   *)
(* call yields what it returns and leaves the object it was given in some  *)
(* state.  None of the three reads or writes a module-level name other     *)
(* than the constants of Config.                                           *)

\* find_best_pairings appends to its own list `pairings` and sorts that one;
\* it only iterates over `matches` and reads the fields of each match
find_best_pairings_frame(matches, min_odds, max_odds, max_spread) ==
    [returned |-> find_best_pairings(matches, min_odds, max_odds, max_spread),
     left |-> matches]

\* as if the slice were taken by deleting the tail of the caller's list
create_recommendations_frame_truncates(pairings, stake, free_bet_value, target_odds, limit) ==
    [returned |-> create_recommendations(pairings, stake, free_bet_value, target_odds, limit),
     left |-> PySlice(pairings, limit * 2)]
\* create_recommendations iterates over the copy pairings[:limit * 2] and
\* sorts its own list `recommendations`
create_recommendations_frame(pairings, stake, free_bet_value, target_odds, limit) ==
    [returned |-> create_recommendations(pairings, stake, free_bet_value, target_odds, limit),
     left |-> pairings]

\* calculate reads the fields of the request and builds a new response
calculate_frame(request) ==
    [returned |-> calculate(request), left |-> request]

\* calls a caller may have made or have running
MaxCalls == 3

\* the objects a caller holds: a feed of two events whose pairings come out
\* in another order than the events, three pairings whose rating order is
\* not their order in the list, and a request
CallerMatchLists ==
    {ms \in MatchLists : /\ Len(ms) = 2
                         /\ ms[1].sport_title = "Premier League"
                         /\ ms[2].sport_title \in {"Serie B", "Ligue 1"}}

CallerPairingLists ==
    {WithIds(<<Pairing("Serie B", 250, 251), Pairing("Premier League", 300, 302),
               Pairing("Championship", 600, 640)>>),
     WithIds(<<Pairing("Serie B", 200, 201), Pairing("Ligue 1", 210, 212),
               Pairing("Premier League", 150, 156)>>)}

CallerRequests ==
    {[back_odds |-> 300, lay_odds |-> 305, stake |-> 1000, bet_type |-> "qualifying",
      commission |-> 2],
     [back_odds |-> 500, lay_odds |-> 520, stake |-> 2000, bet_type |-> "free_bet_snr",
      commission |-> 5]}

\* the parameters passed by value with each call
CallKinds ==
    {[op |-> "find_best_pairings", min_odds |-> 150, max_odds |-> 500, max_spread |-> 5000],
     [op |-> "calculate"]}
    \cup {[op |-> "create_recommendations", stake |-> 1000, free_bet_value |-> None,
           target_odds |-> None, limit |-> l] : l \in {1, 2}}

\* the object a call of this kind is given
argument_of(kind, objects) ==
    IF kind.op = "find_best_pairings" THEN objects.matches
    ELSE IF kind.op = "create_recommendations" THEN objects.pairings
    ELSE objects.request

\* the body of a call, run on the object as it is when the body runs
run_call(kind, object) ==
    IF kind.op = "find_best_pairings" THEN
        find_best_pairings_frame(object, kind.min_odds, kind.max_odds,
                                 Norm(kind.max_spread, 1000))
    ELSE IF kind.op = "create_recommendations" THEN
        create_recommendations_frame(object, kind.stake, kind.free_bet_value,
                                     kind.target_odds, kind.limit)
    ELSE calculate_frame(object)

\* the object a call was given, as the call leaves it
objects_after(kind, objects, left) ==
    IF kind.op = "find_best_pairings" THEN [objects EXCEPT !.matches = left]
    ELSE IF kind.op = "create_recommendations" THEN [objects EXCEPT !.pairings = left]
    ELSE [objects EXCEPT !.request = left]

\* the caller builds its objects
ReceiveObjects ==
    /\ inputs = None
    /\ \E matches \in CallerMatchLists, pairings \in CallerPairingLists,
          request \in CallerRequests :
            inputs' = Some([matches |-> matches, pairings |-> pairings, request |-> request])
    /\ UNCHANGED <<call, ret, history, user_offer_progress, users, requests, stages_seen,
                   offers_catalog, estimated_from>>

\* a thread enters one of the three functions with the caller's object
BeginCall ==
    /\ inputs # None
    /\ Len(history) < MaxCalls
    /\ \E kind \in CallKinds :
        history' = Append(history, [kind |-> kind, given |-> argument_of(kind, Val(inputs)),
                                    returned |-> None])
    /\ UNCHANGED <<call, ret, inputs, user_offer_progress, users, requests, stages_seen,
                   offers_catalog, estimated_from>>

\* a running call does its work and returns
EndCall ==
    /\ inputs # None
    /\ \E i \in 1..Len(history) :
        /\ IsNone(history[i].returned)
        /\ LET kind == history[i].kind
               done == run_call(kind, argument_of(kind, Val(inputs)))
           IN  /\ history' = [history EXCEPT ![i].returned = Some(done.returned)]
               /\ inputs' = Some(objects_after(kind, Val(inputs), done.left))
    /\ UNCHANGED <<call, ret, user_offer_progress, users, requests, stages_seen,
                   offers_catalog, estimated_from>>

SpecPure == Init /\ [][ReceiveObjects \/ BeginCall \/ EndCall]_vars

---------------------------------------------------------------------------
(* Claims about the frame of the entry points (checked under SpecPure).    *)

SameCall(a, b) == a.kind = b.kind /\ a.given = b.given

---------------------------------------------------------------------------
(* The calculator on floats.  The two outcome profits are computed by      *)
(* different float expressions, each with its own binary rounding error,   *)
(* far below a hundredth of a penny for the amounts of a request.  The     *)
(* error decides round(x, 2) only when the exact value lies half-way       *)
(* between two pennies: there the float may lie on either side.            *)

\* x is an odd multiple of half a penny
IsHalfPenny(x) == (200 * x.n) % x.d = 0 /\ ((200 * x.n) \div x.d) % 2 = 1

\* round(x, 2) of the float computed for the exact value x, in hundredths
round2_float(x) ==
    IF IsHalfPenny(x) THEN {(100 * x.n) \div x.d, ((100 * x.n) \div x.d) + 1}
    ELSE {Round2(x)}

\* the lay stake leaves the commission out of the balance
back_lay_profits_no_commission(request) ==
    LET back_odds == Dec(request.back_odds)
        lay_odds == Dec(request.lay_odds)
        stake == Dec(request.stake)
        commission == Dec(request.commission)
        won == IF request.bet_type = QUALIFYING THEN RMul(stake, RSub(back_odds, Whole(1)))
               ELSE IF request.bet_type = FREE_BET_SNR THEN RMul(stake, RSub(back_odds, Whole(1)))
               ELSE RMul(stake, back_odds)
        covered == IF request.bet_type = FREE_BET_SNR THEN RMul(stake, RSub(back_odds, Whole(1)))
                   ELSE RMul(stake, back_odds)
        lay_stake == RDiv(covered, lay_odds)
        liability == RMul(lay_stake, RSub(lay_odds, Whole(1)))
        kept == RMul(lay_stake, RSub(Whole(1), commission))
    IN  [back_wins_profit |-> RSub(won, liability),
         lay_wins_profit |-> IF request.bet_type = QUALIFYING THEN RSub(kept, stake) ELSE kept]
\* back_wins_profit and lay_wins_profit of the three policies before
\* rounding: what the back bet wins less the liability, and what is kept of
\* the lay stake (less the stake when it was the bettor's own money)
back_lay_profits(request) ==
    LET back_odds == Dec(request.back_odds)
        lay_odds == Dec(request.lay_odds)
        stake == Dec(request.stake)
        commission == Dec(request.commission)
        won == IF request.bet_type = QUALIFYING THEN RMul(stake, RSub(back_odds, Whole(1)))
               ELSE IF request.bet_type = FREE_BET_SNR THEN RMul(stake, RSub(back_odds, Whole(1)))
               ELSE RMul(stake, back_odds)
        covered == IF request.bet_type = FREE_BET_SNR THEN RMul(stake, RSub(back_odds, Whole(1)))
                   ELSE RMul(stake, back_odds)
        lay_stake == RDiv(covered, RSub(lay_odds, commission))
        liability == RMul(lay_stake, RSub(lay_odds, Whole(1)))
        kept == RMul(lay_stake, RSub(Whole(1), commission))
    IN  [back_wins_profit |-> RSub(won, liability),
         lay_wins_profit |-> IF request.bet_type = QUALIFYING THEN RSub(kept, stake) ELSE kept]

IntMin(a, b) == IF a <= b THEN a ELSE b

\* the responses calculate can return on floats: min(...) is one of the two
\* floats and their mean lies between them, and round is monotone, so the
\* rounded guaranteed profit is the lower of the two rounded profits and the
\* rounded mean is one of them
calculate_float(request) ==
    LET exact == back_lay_profits(request)
        responses(back_wins, lay_wins) ==
            {[calculate(request) EXCEPT
                  !.outcomes[1].profit = back_wins,
                  !.outcomes[2].profit = lay_wins,
                  !.guaranteed_profit = IntMin(back_wins, lay_wins),
                  !.expected_value = expected] : expected \in {back_wins, lay_wins}}
    IN  UNION {responses(pair[1], pair[2]) :
                  pair \in round2_float(exact.back_wins_profit)
                           \X round2_float(exact.lay_wins_profit)}

\* requests whose profit is a whole number of pennies, and requests whose
\* profit ends in half a penny
FloatCalcRequests ==
    CalcRequests
    \cup [back_odds : {115, 300}, lay_odds : {200, 300}, stake : {500, 2500},
          bet_type : BetType, commission : {0}]

CalculateFloat ==
    /\ call = Idle
    /\ \E request \in FloatCalcRequests :
        /\ call' = [op |-> "calculate_float", request |-> request]
        /\ ret' \in calculate_float(request)
    /\ UNCHANGED store

SpecCalcFloat == Init /\ [][CalculateFloat]_vars

---------------------------------------------------------------------------
(* Claims about the balance of the two outcomes (checked under             *)
(* SpecCalcFloat).                                                         *)

IsFloatCalc == call.op = "calculate_float"

BackWins == ret.outcomes[1].profit
LayWins == ret.outcomes[2].profit

\* C23 as stated: for each policy and every valid request the lay stake
\* makes the back-wins profit equal to the lay-wins profit before rounding,
\* so guaranteed_profit equals expected_value.
C23_GuaranteedEqualsExpected ==
    IsFloatCalc =>
        /\ back_lay_profits(call.request).back_wins_profit
               = back_lay_profits(call.request).lay_wins_profit
        /\ ret.guaranteed_profit = ret.expected_value

\* C23 amended: the two profits are equal in exact arithmetic; in the
\* response the two outcome profits, guaranteed_profit and expected_value
\* are within a penny of each other, and equal unless the exact profit ends
\* in half a penny; a Qualifying bet with back_odds = lay_odds and
\* commission 0 has both profits equal (to 0).
C23_BalancedWithinAPenny ==
    IsFloatCalc =>
        LET exact == back_lay_profits(call.request)
        IN  /\ exact.back_wins_profit = exact.lay_wins_profit
            /\ Abs(BackWins - LayWins) <= 1
            /\ ret.guaranteed_profit = IntMin(BackWins, LayWins)
            /\ ret.expected_value \in {BackWins, LayWins}
            /\ ~IsHalfPenny(exact.back_wins_profit) =>
                  /\ BackWins = LayWins
                  /\ ret.guaranteed_profit = ret.expected_value
                  /\ ret = calculate(call.request)
            /\ (/\ call.request.bet_type = QUALIFYING
                /\ call.request.back_odds = call.request.lay_odds
                /\ call.request.commission = 0) =>
                  (BackWins = 0 /\ LayWins = 0)

\* back 1.15, lay 2.00, stake 5.00, no commission: both profits are -2.125
\* and the response has -2.13 guaranteed and -2.12 expected
C23_Witness ==
    /\ IsFloatCalc
    /\ call.request = [back_odds |-> 115, lay_odds |-> 200, stake |-> 500,
                       bet_type |-> QUALIFYING, commission |-> 0]
    /\ back_lay_profits(call.request).lay_wins_profit = Norm(-2125, 1000)
    /\ BackWins = -213
    /\ LayWins = -212
    /\ ret.guaranteed_profit = -213
    /\ ret.expected_value = -212

\* the perfectly balanced qualifying bet
C23_WitnessBalanced ==
    /\ IsFloatCalc
    /\ call.request = [back_odds |-> 300, lay_odds |-> 300, stake |-> 2500,
                       bet_type |-> QUALIFYING, commission |-> 0]
    /\ ret.guaranteed_profit = 0
    /\ ret.expected_value = 0

---------------------------------------------------------------------------
(* backend/models/offers_catalog.py and backend/services/offers_catalog.py: *)
(* the progress of a user through an offer.  user_offer_progress holds one *)
(* row per started offer of the user (None: not started), users holds the  *)
(* user's total_profit.  Money is in pennies.  A request in a slot is at   *)
(* the database operation named by its pc; stages_seen lists, for each     *)
(* offer, the stages its row has held.                                     *)

OfferStage ==
    {"discovered", "selected", "signing_up", "account_created", "verified",
     "qualifying_pending", "qualifying_placed", "qualifying_settled",
     "free_bet_pending", "free_bet_available", "free_bet_placed", "free_bet_settled",
     "completed", "skipped", "expired", "failed"}

\* an account that was created can be completed at once
STAGE_TRANSITIONS_shortcut ==
    [stage \in OfferStage |->
        CASE stage = "discovered" -> {"selected", "skipped"}
          [] stage = "selected" -> {"signing_up", "skipped"}
          [] stage = "signing_up" -> {"account_created", "failed"}
          [] stage = "account_created" -> {"verified", "qualifying_pending",
                                           "qualifying_placed", "completed"}
          [] stage = "verified" -> {"qualifying_pending", "qualifying_placed"}
          [] stage = "qualifying_pending" -> {"qualifying_placed", "skipped"}
          [] stage = "qualifying_placed" -> {"qualifying_settled"}
          [] stage = "qualifying_settled" -> {"free_bet_pending", "free_bet_available"}
          [] stage = "free_bet_pending" -> {"free_bet_available", "expired"}
          [] stage = "free_bet_available" -> {"free_bet_placed"}
          [] stage = "free_bet_placed" -> {"free_bet_settled"}
          [] stage = "free_bet_settled" -> {"completed"}
          [] stage = "completed" -> {}
          [] stage = "skipped" -> {}
          [] stage = "expired" -> {}
          [] stage = "failed" -> {"selected"}]
STAGE_TRANSITIONS ==
    [stage \in OfferStage |->
        CASE stage = "discovered" -> {"selected", "skipped"}
          [] stage = "selected" -> {"signing_up", "skipped"}
          [] stage = "signing_up" -> {"account_created", "failed"}
          [] stage = "account_created" -> {"verified", "qualifying_pending",
                                           "qualifying_placed"}
          [] stage = "verified" -> {"qualifying_pending", "qualifying_placed"}
          [] stage = "qualifying_pending" -> {"qualifying_placed", "skipped"}
          [] stage = "qualifying_placed" -> {"qualifying_settled"}
          [] stage = "qualifying_settled" -> {"free_bet_pending", "free_bet_available"}
          [] stage = "free_bet_pending" -> {"free_bet_available", "expired"}
          [] stage = "free_bet_available" -> {"free_bet_placed"}
          [] stage = "free_bet_placed" -> {"free_bet_settled"}
          [] stage = "free_bet_settled" -> {"completed"}
          [] stage = "completed" -> {}
          [] stage = "skipped" -> {}
          [] stage = "expired" -> {}
          [] stage = "failed" -> {"selected"}]

ValueError == "ValueError"

\* the row start_offer inserts
started_progress ==
    [stage |-> "selected", qualifying_loss |-> None, free_bet_profit |-> None,
     total_profit |-> None, signed_up_at |-> FALSE, qualifying_placed_at |-> FALSE,
     free_bet_received_at |-> FALSE, completed_at |-> FALSE]

\* every requested stage passes
transition_allowed_any(current_stage, new_stage) == TRUE
\* `new_stage not in allowed` raises
transition_allowed(current_stage, new_stage) ==
    new_stage \in STAGE_TRANSITIONS[current_stage]

\* is the update a request for the stage COMPLETED
completes(update) == update.stage = Some("completed")

\* total profit of a completed offer: free bet profit minus qualifying loss,
\* the loss taken from the row read, the profit from the update before the row
total_profit_of(update, current) ==
    LET q_loss == IF Truthy(current.qualifying_loss) THEN Val(current.qualifying_loss) ELSE 0
        fb_profit == IF Truthy(update.free_bet_profit) THEN Val(update.free_bet_profit)
                     ELSE IF Truthy(current.free_bet_profit) THEN Val(current.free_bet_profit)
                     ELSE 0
    IN  Round2(Dec(fb_profit - Abs(q_loss)))

\* the columns the update statement sets in the stored row: the fields given
\* in the request, the timestamp of the new stage and, on completion, the
\* total profit
apply_update_data(row, update, current) ==
    LET new_stage == IF IsNone(update.stage) THEN "" ELSE Val(update.stage)
    IN  [stage |-> IF IsNone(update.stage) THEN row.stage ELSE new_stage,
         qualifying_loss |-> IF IsNone(update.qualifying_loss) THEN row.qualifying_loss
                             ELSE update.qualifying_loss,
         free_bet_profit |-> IF IsNone(update.free_bet_profit) THEN row.free_bet_profit
                             ELSE update.free_bet_profit,
         total_profit |-> IF new_stage = "completed"
                          THEN Some(total_profit_of(update, current)) ELSE row.total_profit,
         signed_up_at |-> row.signed_up_at \/ new_stage = "account_created",
         qualifying_placed_at |-> row.qualifying_placed_at \/ new_stage = "qualifying_placed",
         free_bet_received_at |-> row.free_bet_received_at \/ new_stage = "free_bet_available",
         completed_at |-> row.completed_at \/ new_stage = "completed"]

\* a failed sign-up can be tried again this many times
MaxRetries == 1

\* the sign-ups of the offer that have failed
Retries(offer_id) ==
    Cardinality({k \in 1..Len(stages_seen[offer_id]) : stages_seen[offer_id][k] = "failed"})

\* the bodies of PUT /user/offers/{offer_id}
ProgressUpdates ==
    {[stage |-> Some(stage), qualifying_loss |-> None, free_bet_profit |-> None] :
        stage \in OfferStage}
    \cup {[stage |-> None, qualifying_loss |-> Some(-250), free_bet_profit |-> None],
          [stage |-> Some("qualifying_settled"), qualifying_loss |-> Some(-250),
           free_bet_profit |-> None],
          [stage |-> Some("free_bet_settled"), qualifying_loss |-> None,
           free_bet_profit |-> Some(1500)],
          [stage |-> Some("completed"), qualifying_loss |-> None,
           free_bet_profit |-> Some(1600)]}

\* the offers the user starts
StartableOffers == {1}

NoRequestRunning == \A slot \in RequestSlots : IsNone(requests[slot])

\* the slot a new request takes
free_slot == CHOOSE slot \in RequestSlots :
                 /\ IsNone(requests[slot])
                 /\ \A other \in RequestSlots : IsNone(requests[other]) => slot <= other

\* the response of a request and the end of its handling
respond(slot, outcome) ==
    /\ call' = [op |-> "update_offer_progress", offer_id |-> Val(requests[slot]).offer_id,
                update |-> Val(requests[slot]).update, before |-> Val(requests[slot]).before]
    /\ ret' = outcome
    /\ requests' = [requests EXCEPT ![slot] = None]

\* start_offer: one row per user and offer, in stage SELECTED
StartOffer ==
    /\ NoRequestRunning
    /\ \E offer_id \in StartableOffers :
        /\ call' = [op |-> "start_offer", offer_id |-> offer_id]
        /\ IF ~IsNone(user_offer_progress[offer_id]) THEN
               /\ ret' = Raise(ValueError)
               /\ UNCHANGED <<user_offer_progress, stages_seen>>
           ELSE
               /\ user_offer_progress' =
                      [user_offer_progress EXCEPT ![offer_id] = Some(started_progress)]
               /\ stages_seen' = [stages_seen EXCEPT ![offer_id] = <<"selected">>]
               /\ ret' = Ok(started_progress)
    /\ UNCHANGED <<inputs, history, users, requests, offers_catalog, estimated_from>>

new_request(offer_id, update) ==
    [offer_id |-> offer_id, update |-> update, pc |-> "get_offer_progress",
     before |-> [progress |-> user_offer_progress[offer_id],
                 total_profit |-> users.total_profit],
     current |-> None, current_profit |-> None]

\* a retry of a failed sign-up is asked for at most MaxRetries times
WithinRetries(offer_id, update) ==
    update.stage = Some("selected") => Retries(offer_id) <= MaxRetries

\* a request arrives while no other request is being handled
ReceiveUpdate ==
    /\ NoRequestRunning
    /\ \E offer_id \in OfferIds, update \in ProgressUpdates :
        /\ WithinRetries(offer_id, update)
        /\ requests' = [requests EXCEPT ![free_slot] = Some(new_request(offer_id, update))]
    /\ UNCHANGED <<call, ret, inputs, history, user_offer_progress, users, stages_seen,
                   offers_catalog, estimated_from>>

\* a request arrives at a server that may be handling others
ReceiveUpdateConcurrently ==
    /\ \E slot \in RequestSlots : IsNone(requests[slot])
    /\ \E offer_id \in OfferIds, update \in {u \in ProgressUpdates : completes(u)} :
        requests' = [requests EXCEPT ![free_slot] = Some(new_request(offer_id, update))]
    /\ UNCHANGED <<call, ret, inputs, history, user_offer_progress, users, stages_seen,
                   offers_catalog, estimated_from>>

\* get_offer_progress and the validation of the transition against the row
\* just read
GetOfferProgress ==
    \E slot \in RequestSlots :
        /\ ~IsNone(requests[slot])
        /\ Val(requests[slot]).pc = "get_offer_progress"
        /\ LET request == Val(requests[slot])
               current == user_offer_progress[request.offer_id]
               update == request.update
           IN  IF IsNone(current) THEN
                   respond(slot, Raise(ValueError))
               ELSE IF /\ ~IsNone(update.stage)
                       /\ ~transition_allowed(Val(current).stage, Val(update.stage)) THEN
                   respond(slot, Raise(ValueError))
               ELSE
                   /\ requests' = [requests EXCEPT ![slot] =
                          Some([request EXCEPT
                                    !.current = current,
                                    !.pc = IF completes(update) THEN "select_user"
                                           ELSE "update_progress"])]
                   /\ UNCHANGED <<call, ret>>
        /\ UNCHANGED <<inputs, history, user_offer_progress, users, stages_seen,
                       offers_catalog, estimated_from>>

\* _update_user_total_profit: select total_profit of the user
SelectUserTotalProfit ==
    \E slot \in RequestSlots :
        /\ ~IsNone(requests[slot])
        /\ Val(requests[slot]).pc = "select_user"
        /\ requests' = [requests EXCEPT ![slot] =
               Some([Val(requests[slot]) EXCEPT !.current_profit = Some(users.total_profit),
                                                !.pc = "update_user"])]
        /\ UNCHANGED <<call, ret, inputs, history, user_offer_progress, users, stages_seen,
                       offers_catalog, estimated_from>>

\* _update_user_total_profit: update the user with the total read plus the
\* profit of the offer
UpdateUserTotalProfit ==
    \E slot \in RequestSlots :
        /\ ~IsNone(requests[slot])
        /\ Val(requests[slot]).pc = "update_user"
        /\ LET request == Val(requests[slot])
               profit_to_add == total_profit_of(request.update, Val(request.current))
               new_total == Round2(Dec(Val(request.current_profit) + profit_to_add))
           IN  /\ users' = [users EXCEPT !.total_profit = new_total]
               /\ requests' = [requests EXCEPT ![slot] =
                      Some([request EXCEPT !.pc = "update_progress"])]
        /\ UNCHANGED <<call, ret, inputs, history, user_offer_progress, stages_seen,
                       offers_catalog, estimated_from>>

\* the update of the row with update_data
UpdateProgressRow ==
    \E slot \in RequestSlots :
        /\ ~IsNone(requests[slot])
        /\ Val(requests[slot]).pc = "update_progress"
        /\ LET request == Val(requests[slot])
               offer_id == request.offer_id
               row == Val(user_offer_progress[offer_id])
           IN  /\ user_offer_progress' = [user_offer_progress EXCEPT ![offer_id] =
                      Some(apply_update_data(row, request.update, Val(request.current)))]
               /\ stages_seen' = [stages_seen EXCEPT ![offer_id] =
                      IF IsNone(request.update.stage) THEN @
                      ELSE Append(@, Val(request.update.stage))]
               /\ requests' = [requests EXCEPT ![slot] = Some([request EXCEPT !.pc = "return"])]
        /\ UNCHANGED <<call, ret, inputs, history, users, offers_catalog, estimated_from>>

\* the closing get_offer_progress: the row as it is now is the response
ReturnProgress ==
    \E slot \in RequestSlots :
        /\ ~IsNone(requests[slot])
        /\ Val(requests[slot]).pc = "return"
        /\ respond(slot, Ok(Val(user_offer_progress[Val(requests[slot]).offer_id])))
        /\ UNCHANGED <<inputs, history, user_offer_progress, users, stages_seen,
                       offers_catalog, estimated_from>>

HandleUpdate ==
    \/ GetOfferProgress
    \/ SelectUserTotalProfit
    \/ UpdateUserTotalProfit
    \/ UpdateProgressRow
    \/ ReturnProgress

\* calls made one after the other
SpecProgress == Init /\ [][StartOffer \/ ReceiveUpdate \/ HandleUpdate]_vars


\* both offers of the user with the qualifying bet and the free bet settled:
\* what the calls of SpecProgress lead to for each offer
settled_progress ==
    [stage |-> "free_bet_settled", qualifying_loss |-> Some(-250),
     free_bet_profit |-> Some(1500), total_profit |-> None, signed_up_at |-> TRUE,
     qualifying_placed_at |-> TRUE, free_bet_received_at |-> TRUE, completed_at |-> FALSE]

settled_stages ==
    <<"selected", "signing_up", "account_created", "qualifying_placed",
      "qualifying_settled", "free_bet_available", "free_bet_placed", "free_bet_settled">>

InitSettled ==
    /\ call = Idle
    /\ ret = <<>>
    /\ inputs = None
    /\ history = <<>>
    /\ user_offer_progress = [offer_id \in OfferIds |-> Some(settled_progress)]
    /\ users = [total_profit |-> 0]
    /\ requests = [slot \in RequestSlots |-> None]
    /\ stages_seen = [offer_id \in OfferIds |-> settled_stages]
    /\ offers_catalog = None
    /\ estimated_from = None

\* requests handled at the same time: the database operations of one
\* request interleave with those of the others
SpecProgressConcurrent == InitSettled /\ [][ReceiveUpdateConcurrently \/ HandleUpdate]_vars

---------------------------------------------------------------------------
(* Claims about the progress of an offer (C24, C30: checked under          *)
(* SpecProgress, calls made one after the other; C25: checked under        *)
(* SpecProgressConcurrent).                                                *)

StageOf(table, offer_id) == Val(table[offer_id]).stage

\* a request is answered in this step
Answered == \E slot \in RequestSlots : ~IsNone(requests[slot]) /\ IsNone(requests'[slot])

\* the answered request asked for a stage that is no edge from the stage of
\* the row
AskedForOtherStage ==
    /\ ~IsNone(call'.before.progress)
    /\ ~IsNone(call'.update.stage)
    /\ Val(call'.update.stage) \notin STAGE_TRANSITIONS[Val(call'.before.progress).stage]

SumOver(f, S) ==
    LET RECURSIVE sum(_)
        sum(T) == IF T = {} THEN 0
                  ELSE LET x == CHOOSE y \in T : TRUE IN f[x] + sum(T \ {x})
    IN  sum(S)

\* the sum of the total_profit of the user's completed offers
CompletedProfit ==
    SumOver([offer_id \in OfferIds |->
                IF /\ ~IsNone(user_offer_progress[offer_id])
                   /\ StageOf(user_offer_progress, offer_id) = "completed"
                THEN Val(Val(user_offer_progress[offer_id]).total_profit) ELSE 0],
            OfferIds)

\* C25: the profit of an offer is added to the user's total_profit exactly
\* once: after any interleaving of update_offer_progress requests of one
\* user, once all of them are answered, the user's total_profit has grown
\* (from 0) by exactly the sum of the total_profit of the completed offers.
C25_TotalIsSumOfCompletedOffers ==
    NoRequestRunning => users.total_profit = CompletedProfit

\* two requests completing the same offer: one offer completed with 12.50,
\* 25.00 added to the user
C25_AddedTwice ==
    /\ NoRequestRunning
    /\ StageOf(user_offer_progress, 1) = "completed"
    /\ StageOf(user_offer_progress, 2) = "free_bet_settled"
    /\ CompletedProfit = 1250
    /\ users.total_profit = 2500

\* two requests completing different offers: 25.00 of completed offers,
\* 12.50 added to the user
C25_AddedOnce ==
    /\ NoRequestRunning
    /\ StageOf(user_offer_progress, 1) = "completed"
    /\ StageOf(user_offer_progress, 2) = "completed"
    /\ CompletedProfit = 2500
    /\ users.total_profit = 1250

---------------------------------------------------------------------------
\* position of the first `stage` in `stages` at or after `from`, 0 if none
FirstAt(stages, stage, from) ==
    LET found == {k \in from..Len(stages) : stages[k] = stage}
    IN  IF from = 0 \/ found = {} THEN 0
        ELSE CHOOSE k \in found : \A other \in found : k <= other

Next1(k) == IF k = 0 THEN 0 ELSE k + 1

\* the stages a completed offer has gone through
Milestones ==
    <<"qualifying_placed", "qualifying_settled", "free_bet_available",
      "free_bet_placed", "free_bet_settled">>

\* the milestones occur in `stages` in their order before the first COMPLETED
MilestonesBeforeCompleted(stages) ==
    LET k1 == FirstAt(stages, Milestones[1], 1)
        k2 == FirstAt(stages, Milestones[2], Next1(k1))
        k3 == FirstAt(stages, Milestones[3], Next1(k2))
        k4 == FirstAt(stages, Milestones[4], Next1(k3))
        k5 == FirstAt(stages, Milestones[5], Next1(k4))
    IN  k5 # 0 /\ k5 < FirstAt(stages, "completed", 1)

\* C30: on every sequence of start_offer and update_offer_progress calls, a
\* progress record that reaches COMPLETED has before that been in
\* QUALIFYING_PLACED, QUALIFYING_SETTLED, FREE_BET_AVAILABLE, FREE_BET_PLACED
\* and FREE_BET_SETTLED, in this order.
C30_CompletedAfterBothBetsSettled ==
    \A offer_id \in OfferIds :
        (/\ ~IsNone(user_offer_progress[offer_id])
         /\ StageOf(user_offer_progress, offer_id) = "completed")
            => /\ stages_seen[offer_id][Len(stages_seen[offer_id])] = "completed"
               /\ MilestonesBeforeCompleted(stages_seen[offer_id])

\* an offer completed the long way: a failed sign-up tried again, the
\* account verified, the free bet awaited
C30_Witness ==
    /\ ~IsNone(user_offer_progress[1])
    /\ StageOf(user_offer_progress, 1) = "completed"
    /\ stages_seen[1] =
           <<"selected", "signing_up", "failed", "selected", "signing_up",
             "account_created", "verified", "qualifying_pending", "qualifying_placed",
             "qualifying_settled", "free_bet_pending", "free_bet_available",
             "free_bet_placed", "free_bet_settled", "completed">>

---------------------------------------------------------------------------
(* backend/services/offers_catalog.py: update_offers_from_scraper, for one *)
(* bookmaker and its row of offers_catalog (None: no row yet).             *)
(* estimated_from holds the terms_summary of the offer for which the       *)
(* stored expected_profit was computed, by the LLM or by the formula.      *)

\* md5 of the terms, "" when there are none; distinct terms have distinct
\* digests
calculate_terms_hash(terms_summary) ==
    IF ~TruthyStr(terms_summary) THEN ""
    ELSE IF Val(terms_summary) = "Bet 10 get 50" THEN "h1"
    ELSE "h2"

\* what the scraper finds for the bookmaker
ScrapedOffers ==
    [offer_value : {None, Some(1000), Some(5000)},
     required_stake : {Some(1000)},
     min_odds : {None},
     terms_summary : {None, Some("Bet 10 get 50"), Some("Bet 10 get 50 in 7 days")}]

\* what the LLM answers in a run: None when every attempt fails
ScraperLlmReplies == {None, Some(2000), Some(3000)}

\* the fields of an offer the estimator reads
estimator_offer(row) ==
    [offer_value |-> row.offer_value, required_stake |-> row.required_stake,
     min_odds |-> row.min_odds, is_stake_returned |-> row.is_stake_returned,
     expected_profit |-> row.expected_profit]

\* the offer created from scraped data, before its profit is computed
new_offer(scraped) ==
    [offer_value |-> scraped.offer_value, required_stake |-> scraped.required_stake,
     min_odds |-> scraped.min_odds, is_stake_returned |-> FALSE,
     terms_summary |-> scraped.terms_summary, terms_hash |-> None,
     expected_profit |-> None]

\* the stored row overlaid with the scraped fields that are given
temp_offer_data(row, scraped) ==
    [row EXCEPT
        !.offer_value = IF IsNone(scraped.offer_value) THEN @ ELSE scraped.offer_value,
        !.required_stake = IF IsNone(scraped.required_stake) THEN @ ELSE scraped.required_stake,
        !.min_odds = IF IsNone(scraped.min_odds) THEN @ ELSE scraped.min_odds,
        !.terms_summary = IF TruthyStr(scraped.terms_summary) THEN scraped.terms_summary ELSE @]

\* the offer the estimator is called with in a run
temp_offer_of(row, scraped) ==
    IF IsNone(row) THEN new_offer(scraped) ELSE temp_offer_data(Val(row), scraped)

\* the profit step of a run: a new offer has no stored hash
profit_step(row, scraped, llm_reply) ==
    LET temp_offer == temp_offer_of(row, scraped)
    IN  scraper_profit_update(estimator_offer(temp_offer),
                              Some(calculate_terms_hash(temp_offer.terms_summary)),
                              IF IsNone(row) THEN None ELSE Val(row).terms_hash,
                              llm_reply)

\* was the value stored by the run computed in the run, by the LLM or by
\* the formula
computed_now(temp_offer, step, llm_reply) ==
    /\ ~IsNone(step.returned)
    /\ \/ step.formula_used
       \/ step.llm_called
          /\ ~IsNone(calculate_expected_profit_with_llm(estimator_offer(temp_offer), llm_reply))

\* the row after the run: expected_profit and terms_hash are written
\* together, and only when a profit was obtained
row_after(temp_offer, step) ==
    IF IsNone(step.returned) THEN temp_offer
    ELSE [temp_offer EXCEPT !.expected_profit = step.returned,
                            !.terms_hash = step.terms_hash]

\* one run of the scraper: the offer is created when the bookmaker has no
\* row (and the scraped offer has a free bet value), updated otherwise
UpdateOffersFromScraper ==
    /\ \E scraped \in ScrapedOffers, llm_reply \in ScraperLlmReplies :
        /\ call' = [op |-> "update_offers_from_scraper", scraped |-> scraped,
                    llm_reply |-> llm_reply]
        /\ IF IsNone(offers_catalog) /\ ~(Truthy(scraped.offer_value)
                                         /\ Val(scraped.offer_value) > 0) THEN
               /\ ret' = [created_count |-> 0, updated_count |-> 0]
               /\ UNCHANGED <<offers_catalog, estimated_from>>
           ELSE
               \E temp_offer \in {temp_offer_of(offers_catalog, scraped)},
                  step \in {profit_step(offers_catalog, scraped, llm_reply)} :
                   /\ ret' = [created_count |-> IF IsNone(offers_catalog) THEN 1 ELSE 0,
                              updated_count |-> IF IsNone(offers_catalog) THEN 0 ELSE 1]
                   /\ offers_catalog' = Some(row_after(temp_offer, step))
                   /\ estimated_from' = IF computed_now(temp_offer, step, llm_reply)
                                        THEN Some(temp_offer.terms_summary)
                                        ELSE estimated_from
    /\ UNCHANGED <<inputs, history, user_offer_progress, users, requests, stages_seen>>

SpecScraper == Init /\ [][UpdateOffersFromScraper]_vars

---------------------------------------------------------------------------
(* Claims about the stored estimate (checked under SpecScraper).           *)

HasStoredProfit == ~IsNone(offers_catalog) /\ ~IsNone(Val(offers_catalog).expected_profit)

\* the step is a run on an offer whose terms are not those its stored
\* profit was computed from, and the LLM answers
RunOnChangedTermsLlmSucceeds ==
    /\ HasStoredProfit
    /\ call'.op = "update_offers_from_scraper"
    /\ ~IsNone(call'.llm_reply)
    /\ Truthy(temp_offer_of(offers_catalog, call'.scraped).offer_value)
    /\ Val(temp_offer_of(offers_catalog, call'.scraped).offer_value) > 0
    /\ Some(temp_offer_of(offers_catalog, call'.scraped).terms_summary) # estimated_from

\* C26: after any sequence of update_offers_from_scraper runs the stored
\* terms_hash is the hash of the terms from which the stored
\* expected_profit was computed; hence an offer whose terms changed since
\* its profit was computed is re-estimated by the next run in which the LLM
\* estimator succeeds.
C26_HashIsOfEstimatedTerms ==
    /\ [](HasStoredProfit =>
            Val(offers_catalog).terms_hash
                = Some(calculate_terms_hash(Val(estimated_from))))
    /\ [][RunOnChangedTermsLlmSucceeds =>
            /\ Val(offers_catalog').expected_profit = call'.llm_reply
            /\ estimated_from' = Some(Val(offers_catalog').terms_summary)]_vars

\* the terms changed in a run in which the LLM failed: the row holds the
\* new terms and their hash with the profit estimated from the old terms
C26_StaleProfitUnderNewHash ==
    /\ HasStoredProfit
    /\ estimated_from = Some(Some("Bet 10 get 50"))
    /\ Val(offers_catalog).terms_summary = Some("Bet 10 get 50 in 7 days")
    /\ Val(offers_catalog).terms_hash = Some("h2")
    /\ Val(offers_catalog).expected_profit = Some(3000)
    /\ call.scraped.terms_summary = Some("Bet 10 get 50 in 7 days")

\* and a later run with the same terms in which the LLM answers keeps it
C26_NotReestimated ==
    /\ C26_StaleProfitUnderNewHash
    /\ call.llm_reply = Some(2000)
    /\ ret.updated_count = 1

---------------------------------------------------------------------------
(* Claims about equal back prices (checked under SpecPairing).             *)

\* the non-exchange quotes of the pairing's event that carry its back price
BackPriceQuotes(p) ==
    {i \in NonExchangeQuotes(MatchOf(p)) :
        OutcomeOdds(MatchOf(p).bookmaker_odds[i], p.outcome) = p.back_odds}

\* C27: when several non-exchange sources quote the same highest price for
\* an outcome, the pairing names as back_bookmaker the one that comes first
\* in the event's quote list.
C27_FirstSeenWinsTie ==
    IsPairingCall =>
        \A k \in 1..Len(ret) :
            /\ \A i \in NonExchangeQuotes(MatchOf(ret[k])) :
                OutcomeOdds(MatchOf(ret[k]).bookmaker_odds[i], ret[k].outcome)
                    <= ret[k].back_odds
            /\ \E i \in BackPriceQuotes(ret[k]) :
                /\ \A j \in BackPriceQuotes(ret[k]) : i <= j
                /\ ret[k].back_bookmaker = MatchOf(ret[k]).bookmaker_odds[i].bookmaker_title

\* William Hill listed before Bet365, both at 3.00 for the home win
C27_Witness ==
    /\ IsPairingCall
    /\ Len(call.matches) = 1
    /\ Len(call.matches[1].bookmaker_odds) = 3
    /\ call.matches[1].bookmaker_odds[1].bookmaker_key = "williamhill"
    /\ call.matches[1].bookmaker_odds[2].bookmaker_key = "bet365"
    /\ call.matches[1].bookmaker_odds[1].home_odds = 300
    /\ call.matches[1].bookmaker_odds[2].home_odds = 300
    /\ \E k \in 1..Len(ret) :
        /\ ret[k].outcome = "home"
        /\ ret[k].back_odds = 300
        /\ ret[k].back_bookmaker = "William Hill"
        /\ Cardinality(BackPriceQuotes(ret[k])) = 2

---------------------------------------------------------------------------
(* The economics of one back price against two lay prices, the tighter and *)
(* the wider, as test_tight_spread_better_profit compares them.            *)

TightSpreadBackOdds == {150, 200, 300, 500}
TightSpreadLayOdds == {150, 155, 200, 202, 220, 300, 305, 330, 500, 520, 600}
TightSpreadCommissions == {0, 2, 5}

\* stake and odds in hundredths, the results unrounded
CompareLayOdds ==
    /\ call = Idle
    /\ \E stake \in StakeGrid, back_odds \in TightSpreadBackOdds,
          tight_lay_odds \in TightSpreadLayOdds, wide_lay_odds \in TightSpreadLayOdds,
          commission \in TightSpreadCommissions :
        /\ back_odds <= tight_lay_odds
        /\ tight_lay_odds <= wide_lay_odds
        /\ call' = [op |-> "compare_lay_odds", stake |-> stake, back_odds |-> back_odds,
                    tight_lay_odds |-> tight_lay_odds, wide_lay_odds |-> wide_lay_odds,
                    commission |-> commission]
        /\ ret' = [tight_qual |-> calculate_qualifying_loss(
                                      Dec(stake), Dec(back_odds), Dec(tight_lay_odds),
                                      Dec(commission)),
                   wide_qual |-> calculate_qualifying_loss(
                                     Dec(stake), Dec(back_odds), Dec(wide_lay_odds),
                                     Dec(commission)),
                   tight_profit |-> calculate_free_bet_profit(
                                        Dec(stake), Dec(back_odds), Dec(tight_lay_odds),
                                        Dec(commission), TRUE),
                   wide_profit |-> calculate_free_bet_profit(
                                       Dec(stake), Dec(back_odds), Dec(wide_lay_odds),
                                       Dec(commission), TRUE)]
    /\ UNCHANGED store

SpecTightSpread == Init /\ [][CompareLayOdds]_vars

---------------------------------------------------------------------------
(* Claims about the spread (checked under SpecTightSpread).                *)

IsCompareLayOdds == call.op = "compare_lay_odds"

\* C28: for fixed stake, back odds and commission, raising lay_odds (with
\* lay_odds >= back_odds) never lowers calculate_qualifying_loss and never
\* raises the SNR calculate_free_bet_profit.
C28_TighterSpreadNeverWorse ==
    IsCompareLayOdds =>
        /\ RLe(ret.tight_qual, ret.wide_qual)
        /\ RLe(ret.wide_profit, ret.tight_profit)
        /\ call.tight_lay_odds < call.wide_lay_odds =>
              /\ RLt(ret.tight_qual, ret.wide_qual)
              /\ RLt(ret.wide_profit, ret.tight_profit)

\* the prices of the test: 2.0 backed, laid at 2.02 and at 2.20, stake 10
\* at 5% commission
C28_Witness ==
    /\ IsCompareLayOdds
    /\ call.stake = 1000
    /\ call.back_odds = 200
    /\ call.tight_lay_odds = 202
    /\ call.wide_lay_odds = 220
    /\ call.commission = 5
    /\ RLt(Whole(0), ret.tight_qual)
    /\ RLt(ret.tight_qual, ret.wide_qual)
    /\ RLt(ret.wide_profit, ret.tight_profit)
    /\ RLt(Whole(0), ret.wide_profit)

---------------------------------------------------------------------------
(* backend/utils/calculator.py: calculate_batch.                           *)

\* sum(r.guaranteed_profit for r in results), in hundredths
RECURSIVE sum_guaranteed_profit(_)
sum_guaranteed_profit(results) ==
    IF results = <<>> THEN 0
    ELSE results[1].guaranteed_profit + sum_guaranteed_profit(Tail(results))

\* max(results, key=lambda r: r.guaranteed_profit): the first of the
\* results with the highest key
RECURSIVE max_by_guaranteed_profit(_)
max_by_guaranteed_profit(results) ==
    IF Len(results) = 1 THEN results[1]
    ELSE LET rest == max_by_guaranteed_profit(Tail(results))
         IN  IF rest.guaranteed_profit > results[1].guaranteed_profit THEN rest
             ELSE results[1]

\* [r for r in results if r.bet_type != BetType.QUALIFYING]
RECURSIVE free_bet_results_of(_)
free_bet_results_of(results) ==
    IF results = <<>> THEN <<>>
    ELSE IF results[1].bet_type # QUALIFYING
         THEN <<results[1]>> \o free_bet_results_of(Tail(results))
         ELSE free_bet_results_of(Tail(results))

\* the best is taken among all results, qualifying bets included
calculate_batch_best_of_all(calculations) ==
    LET results == [i \in 1..Len(calculations) |-> calculate(calculations[i])]
    IN  [results |-> results,
         total_guaranteed_profit |-> Round2(Dec(sum_guaranteed_profit(results))),
         best_opportunity |-> IF results = <<>> THEN None
                              ELSE Some(max_by_guaranteed_profit(results))]
\* request.calculations in, BatchCalcResponse out
calculate_batch(calculations) ==
    LET results == [i \in 1..Len(calculations) |-> calculate(calculations[i])]
        free_bet_results == free_bet_results_of(results)
    IN  [results |-> results,
         total_guaranteed_profit |-> Round2(Dec(sum_guaranteed_profit(results))),
         best_opportunity |->
             IF results = <<>> THEN None
             ELSE IF free_bet_results # <<>> THEN Some(max_by_guaranteed_profit(free_bet_results))
             ELSE Some(max_by_guaranteed_profit(results))]

\* calculations of one batch
MaxBatch == 3

\* the two bets of the test, a qualifying bet laid below its back price (a
\* profit), a small free bet and a stake-returned free bet
BatchRequests ==
    {[back_odds |-> 210, lay_odds |-> 212, stake |-> 1000, bet_type |-> QUALIFYING,
      commission |-> 5],
     [back_odds |-> 210, lay_odds |-> 212, stake |-> 1000, bet_type |-> FREE_BET_SNR,
      commission |-> 5],
     [back_odds |-> 500, lay_odds |-> 202, stake |-> 1000, bet_type |-> QUALIFYING,
      commission |-> 5],
     [back_odds |-> 300, lay_odds |-> 305, stake |-> 50, bet_type |-> FREE_BET_SNR,
      commission |-> 2],
     [back_odds |-> 200, lay_odds |-> 202, stake |-> 500, bet_type |-> FREE_BET_SR,
      commission |-> 0]}

CalculateBatch ==
    /\ call = Idle
    /\ \E calculations \in UNION {[1..n -> BatchRequests] : n \in 0..MaxBatch} :
        /\ call' = [op |-> "calculate_batch", calculations |-> calculations]
        /\ ret' = calculate_batch(calculations)
    /\ UNCHANGED store

SpecBatch == Init /\ [][CalculateBatch]_vars

---------------------------------------------------------------------------
(* Claims about calculate_batch (checked under SpecBatch).                 *)

IsBatchCall == call.op = "calculate_batch"

\* positions of the results among which the best is looked for
BestPool ==
    LET free_bets == {i \in 1..Len(ret.results) : ret.results[i].bet_type # QUALIFYING}
    IN  IF free_bets # {} THEN free_bets ELSE 1..Len(ret.results)

\* C29: calculate_batch returns one result per request in request order, a
\* total_guaranteed_profit equal to the sum of the results'
\* guaranteed_profit, and for a non-empty batch a best_opportunity that is
\* the result with the highest guaranteed_profit among the free-bet results
\* when the batch has any, otherwise among all results.
C29_BatchResultsTotalAndBest ==
    IsBatchCall =>
        /\ Len(ret.results) = Len(call.calculations)
        /\ \A i \in 1..Len(ret.results) : ret.results[i] = calculate(call.calculations[i])
        /\ ret.total_guaranteed_profit = sum_guaranteed_profit(ret.results)
        /\ Len(call.calculations) > 0 =>
              /\ ~IsNone(ret.best_opportunity)
              /\ \E i \in BestPool : ret.results[i] = Val(ret.best_opportunity)
              /\ \A i \in BestPool :
                    ret.results[i].guaranteed_profit
                        <= Val(ret.best_opportunity).guaranteed_profit

\* a qualifying bet with a profit above that of the free bets of the batch:
\* the best opportunity is the better of the two free bets
C29_Witness ==
    /\ IsBatchCall
    /\ Len(call.calculations) = 3
    /\ ret.results[1].bet_type = QUALIFYING
    /\ ret.results[2].bet_type = FREE_BET_SNR
    /\ ret.results[3].bet_type = FREE_BET_SNR
    /\ ret.results[1].guaranteed_profit > ret.results[3].guaranteed_profit
    /\ ret.results[3].guaranteed_profit > ret.results[2].guaranteed_profit
    /\ ret.results[2].guaranteed_profit > 0
    /\ ret.best_opportunity = Some(ret.results[3])
    /\ ret.total_guaranteed_profit
           = ret.results[1].guaranteed_profit + ret.results[2].guaranteed_profit
             + ret.results[3].guaranteed_profit

=============================================================================
